---- MODULE Spec2Model ----
(***************************************************************************)
(* FlowBox: a lazy container around a thunk, with combinators that resolve *)
(* synchronous values, promises and "bad values" the same way.             *)
(*                                                                         *)
(* A JavaScript value is a record with a tag t.  A promise is modelled by  *)
(* the settlement it will eventually have (st, pv) and the reactions       *)
(* registered on it with then/catch/finally (ks, in registration order);   *)
(* the reactions run one at a time, after the call that built the promise  *)
(* has returned (the Settle action).                                       *)
(***************************************************************************)
EXTENDS Integers, Sequences, FiniteSets, TLC

VARIABLES
    boxes,               \* the FlowBox instances built so far: [thunk, config]
    staticDefaultConfig, \* FlowBox._defaultConfig
    results,             \* one record per call of a runner
    tasks,               \* tasks[i]: the promise chain started by runner call i
    calls                \* calls[i]: the user functions invoked by runner call i

vars == <<boxes, staticDefaultConfig, results, tasks, calls>>

---------------------------------------------------------------------------
(* Bounds *)

MaxBoxes == 4
\* the boxes of one chain with its siblings
MaxChain == 3
MaxRuns == 3
\* the elements of a collection
MaxLen == 2

---------------------------------------------------------------------------
(* JavaScript values *)

Num(n) == [t |-> "number", v |-> n]
Null == [t |-> "null", v |-> 0]
Undefined == [t |-> "undefined", v |-> 0]
NaN == [t |-> "nan", v |-> 0]
True == [t |-> "boolean", v |-> 1]
False == [t |-> "boolean", v |-> 0]
\* new Error(...): v is the identity of the instance
Err(i) == [t |-> "error", v |-> i]
\* a string, e.g. the 'oops' of  throw 'oops'
Str(i) == [t |-> "string", v |-> i]
\* the library's own predicates, as values of a badValues list
isErrorFn == [t |-> "function", v |-> 1]
isNaNFn == [t |-> "function", v |-> 2]
\* a promise that will settle as st ("ful" | "rej") with pv, and the
\* reactions registered on it
Promise(st, pv) == [t |-> "promise", st |-> st, pv |-> pv, ks |-> <<>>]

\* the user's functions that are passed around as values (the operands of ap)
FnNames == <<"isError", "isNaN", "inc", "throwError", "isOne">>
FnValue(name) == [t |-> "function", v |-> CHOOSE i \in DOMAIN FnNames : FnNames[i] = name]
FnName(g) == FnNames[g.v]

\* a FlowBox instance as a value: one built by the program's own steps is
\* named by its place in boxes
BoxRef(h) == [t |-> "box", v |-> h]

\* a collection: an array, a Map, a Set or a plain object, with its entries
\* [k, v] in iteration order
Entry(k, v) == [k |-> k, v |-> v]
Coll(kind, entries) == [t |-> kind, v |-> 0, items |-> entries]
Arr(vals) == Coll("array", [i \in 1..Len(vals) |-> Entry(Num(i - 1), vals[i])])
IsCollection(c) == c.t \in {"array", "map", "set", "object"}

isError(e) == e.t = "error"
isPromise(v) == v.t = "promise"
isFunction(f) == f.t = "function"
identity(v) == v

\* the values a Set or a Map key tells apart by what they are; every other
\* object is told apart by identity
SameValueZero(a, b) ==
    a = b /\ a.t \in {"number", "string", "boolean", "null", "undefined", "nan", "error", "function"}

\* export const toEntries = (collection) => ...
toEntries(collection) ==
    CASE collection.t \in {"null", "undefined"} -> <<>>
      [] IsCollection(collection) -> collection.items
      [] OTHER -> <<Entry(Num(0), collection)>>

\* new Set(values): a value already in the Set is not added again
RECURSIVE NewSet(_, _)
NewSet(values, acc) ==
    IF values = <<>> THEN acc
    ELSE IF \E j \in DOMAIN acc : SameValueZero(acc[j].v, Head(values))
         THEN NewSet(Tail(values), acc)
         ELSE NewSet(Tail(values), Append(acc, Entry(Head(values), Head(values))))

\* a fromEntries that builds an array whatever the source was
fromEntriesAsArray(entries, src) ==
    CASE src.t \in {"null", "undefined"} -> src
      [] IsCollection(src) -> Arr([i \in 1..Len(entries) |-> entries[i].v])
      [] OTHER -> IF entries = <<>> THEN Undefined ELSE entries[1].v

\* export const fromEntries = (entries, src) => ...  (the keys of entries are
\* those of src, hence distinct)
fromEntries(entries, src) ==
    CASE src.t \in {"null", "undefined"} -> src
      [] src.t = "array" -> Arr([i \in 1..Len(entries) |-> entries[i].v])
      [] src.t = "map" -> Coll("map", entries)
      [] src.t = "set" -> Coll("set", NewSet([i \in 1..Len(entries) |-> entries[i].v], <<>>))
      [] src.t = "object" -> Coll("object", entries)
      [] OTHER -> IF entries = <<>> THEN Undefined ELSE entries[1].v

\* the { src, entries } object the collection combinators pass from stage to
\* stage
Ctx(src, entries) == [t |-> "ctx", v |-> 0, src |-> src, entries |-> entries]

\* v === w
StrictEq(v, w) == v = w /\ v.t # "nan"

\* !!v
Truthy(v) ==
    CASE v.t \in {"null", "undefined", "nan"} -> FALSE
      [] v.t \in {"number", "boolean"} -> v.v # 0
      [] OTHER -> TRUE

\* how a call ends: it returns v or throws v
Ret(v) == [k |-> "ret", v |-> v]
Throw(v) == [k |-> "throw", v |-> v]

\* p.then(k) / p.catch(k) / p.finally(k): a new promise, p's settlement
\* passed through the reaction k
Then(p, k) == [p EXCEPT !.ks = Append(@, k)]

---------------------------------------------------------------------------
(* Configuration *)

defaultConfig == [badValues |-> <<Null, Undefined, isErrorFn, isNaNFn>>]

\* x + 1, for the x a callback can be handed
Plus1(x) ==
    CASE x.t = "number" -> Num(x.v + 1)
      [] x.t = "null" -> Num(1)
      [] x.t = "boolean" -> Num(x.v + 1)
      [] x.t \in {"undefined", "nan"} -> NaN
      [] OTHER -> Str(2)

\* bv(v) for a function of a badValues list, as the truth of what it
\* returns: the library's predicates, (x) => x === 1 and (x) => x + 1
CallRule(bv, v) ==
    CASE bv = isErrorFn -> isError(v)
      [] bv = isNaNFn -> v.t = "nan"
      [] bv = FnValue("isOne") -> v = Num(1)
      [] bv = FnValue("inc") -> Truthy(Plus1(v))
      [] OTHER -> FALSE

RECURSIVE isBadValue(_, _)
isBadValue(v, badValues) ==
    IF badValues = <<>> THEN FALSE
    ELSE LET bv == Head(badValues) IN
         IF StrictEq(v, bv) THEN TRUE
         ELSE IF isFunction(bv) /\ CallRule(bv, v) THEN TRUE
         ELSE isBadValue(v, Tail(badValues))

\* const badVals = badValues || []: the list given, or none when the
\* argument is missing
badVals(badValues) == IF badValues.given THEN badValues.list ELSE <<>>

\* an invocation of the predicate at place j of a rule list
RuleCall(j, v) == [id |-> j, site |-> "badValue", arg |-> v]

\* the predicates badVals.some((bv) => ...) invokes for v, from place j on:
\* none for a rule v is identical to, which ends the search; a function that
\* is reached is called, and a truthy answer ends the search
RECURSIVE some(_, _, _)
some(v, rules, j) ==
    IF j > Len(rules) THEN <<>>
    ELSE IF StrictEq(v, rules[j]) THEN <<>>
    ELSE IF isFunction(rules[j])
         THEN <<RuleCall(j, v)>> \o (IF CallRule(rules[j], v) THEN <<>> ELSE some(v, rules, j + 1))
    ELSE some(v, rules, j + 1)

---------------------------------------------------------------------------
(* The user's functions.  A callback is named by what it does; calling it  *)
(* returns a value (possibly a promise) or throws.                         *)

\* a FlowBox.of(val, config) built while a thunk is being evaluated (by a
\* callback or by distribute): it is held by the value that refers to it
InlineBox(val, config) ==
    [t |-> "box", v |-> 0, thunk |-> [op |-> "of", id |-> 0, src |-> 0, fn |-> "", out |-> Ret(val)],
     config |-> config]

Call(fn, x) ==
    CASE fn = "inc" -> Ret(Plus1(x))                           \* x => x + 1
      [] fn = "toNull" -> Ret(Null)                            \* () => null
      [] fn = "toError" -> Ret(Err(2))                         \* () => new Error()
      [] fn = "ten" -> Ret(Num(10))                            \* () => 10
      [] fn = "throwError" -> Throw(Err(3))                    \* () => { throw new Error() }
      [] fn = "throwString" -> Throw(Str(1))                   \* () => { throw 'oops' }
      \* x => { if (x === 2) throw new Error(); return x + 1 }
      [] fn = "throwOnTwo" -> IF x = Num(2) THEN Throw(Err(3)) ELSE Ret(Plus1(x))
      [] fn = "asyncInc" -> Ret(Promise("ful", Plus1(x)))      \* async x => x + 1
      [] fn = "asyncThrow" -> Ret(Promise("rej", Err(4)))      \* async () => { throw new Error() }
      [] fn = "isOne" -> Ret(IF x = Num(1) THEN True ELSE False) \* x => x === 1
      [] fn = "asyncIsOne" -> Ret(Promise("ful", IF x = Num(1) THEN True ELSE False))
      [] fn = "boxInc" -> Ret(InlineBox(Plus1(x), staticDefaultConfig)) \* x => FlowBox.of(x + 1)
      \* x => FlowBox.of(FlowBox.of(x + 1))
      [] fn = "boxBoxInc" ->
           Ret(InlineBox(InlineBox(Plus1(x), staticDefaultConfig), staticDefaultConfig))
      \* async x => FlowBox.of(x + 1)
      [] fn = "asyncBoxInc" -> Ret(Promise("ful", InlineBox(Plus1(x), staticDefaultConfig)))
      [] fn = "isError" -> Ret(IF isError(x) THEN True ELSE False)
      [] fn = "isNaN" -> Ret(IF x.t = "nan" THEN True ELSE False)
      [] OTHER -> Ret(Undefined)

\* one invocation of a user function: the stage that holds it, the kind of
\* stage, and the argument
Ev(id, site, arg) == [id |-> id, site |-> site, arg |-> arg]

\* the result of evaluating something: how it ended, and the invocations so far
Res(out, log) == [out |-> out, log |-> log]

Invoke(fn, id, site, x, log) == Res(Call(fn, x), Append(log, Ev(id, site, x)))

---------------------------------------------------------------------------
(* Thunks.  A thunk is the closure a constructor or a combinator builds:   *)
(* op names the code of the closure, src the box it closes over (this),    *)
(* fn the user function, out what the user's producer does, id the call    *)
(* of the constructor or combinator that built it.                         *)

ThunkOf(op, id, src, fn, out) == [op |-> op, id |-> id, src |-> src, fn |-> fn, out |-> out]

Box(thunk, config) == [thunk |-> thunk, config |-> config]

\* a reaction registered on a promise by the code of box `box`
K(c, box, fn, id) == [c |-> c, box |-> box, fn |-> fn, id |-> id]

\* a classifier that reads the process-wide default of the moment
_isBadValueByDefault(b, v) == isBadValue(v, staticDefaultConfig.badValues)

\* a classifier for which an Error instance is bad under every rule list
_isBadValueOrError(b, v) == isError(v) \/ isBadValue(v, boxes[b].config.badValues)

\* this._isBadValue(v), called by the code of box b
_isBadValue(b, v) == isBadValue(v, boxes[b].config.badValues)

RECURSIVE Value(_, _)
RECURSIVE CallThunk(_, _)
RECURSIVE resolve(_, _, _, _, _, _)

\* the rest of a computation once r has returned; what r throws ends it
Bind(r, F(_, _)) == IF r.out.k = "throw" THEN r ELSE F(r.out.v, r.log)

\* try { r } catch (err) { F(err) }
OnThrow(r, F(_, _)) == IF r.out.k = "throw" THEN F(r.out.v, r.log) ELSE r

\* try { r } catch (err) { return err }
Caught(r) == IF r.out.k = "throw" THEN Res(Ret(identity(r.out.v)), r.log) ELSE r

\* FlowBox.isFlowBox(v)
isFlowBox(v) == v.t = "box"

\* v.value, for a value v that is a FlowBox
BoxValue(v, log) == IF v.v > 0 THEN Value(v.v, log) ELSE CallThunk(v.thunk, log)

\* this._ofWithConfig(value), called by the code of box b
_ofWithConfig(b, value) == InlineBox(value, boxes[b].config)

\* an _unbox that goes on while what it finds is a box
RECURSIVE _unboxAllLevels(_, _)
_unboxAllLevels(v, log) ==
    IF isFlowBox(v) THEN Bind(BoxValue(v, log), _unboxAllLevels)
    ELSE IF isPromise(v) THEN Res(Ret(Then(v, [c |-> "unboxDeep"])), log)
    ELSE Res(Ret(v), log)

\* an _unbox that hands a box back as it is
_unboxNothing(v, log) ==
    IF isPromise(v) THEN Res(Ret(Then(v, [c |-> "unbox"])), log)
    ELSE Res(Ret(v), log)

_unbox(v, log) ==
    IF isFlowBox(v) THEN BoxValue(v, log)
    ELSE IF isPromise(v) THEN Res(Ret(Then(v, [c |-> "unbox"])), log)
    ELSE Res(Ret(v), log)

RECURSIVE _unboxDeep(_, _)
_unboxDeep(v, log) ==
    IF isFlowBox(v) THEN Bind(BoxValue(v, log), _unboxDeep)
    ELSE IF isPromise(v) THEN Res(Ret(Then(v, [c |-> "unboxDeep"])), log)
    ELSE Res(Ret(v), log)

\* a distribute that wraps every element, a box included
EntryOpBoxingAll(b, op, fn, id, v, log) ==
    CASE op = "unboxEntries" -> _unboxDeep(v, log)
      [] op = "traverseEntries" -> resolve(b, "traverseFn", fn, id, v, log)
      [] op = "boxEntries" -> Res(Ret(_ofWithConfig(b, v)), log)

\* a traverse that hands every element to fn, whatever the element is
EntryOpUnclassified(b, op, fn, id, v, log) ==
    CASE op = "unboxEntries" -> _unboxDeep(v, log)
      [] op = "traverseEntries" -> Caught(Invoke(fn, id, "traverse", v, log))
      [] op = "boxEntries" -> Res(Ret(IF isFlowBox(v) THEN v ELSE _ofWithConfig(b, v)), log)

\* what the stages of traverse, sequence and distribute do with one entry
EntryOp(b, op, fn, id, v, log) ==
    CASE op = "unboxEntries" -> _unboxDeep(v, log)
      [] op = "traverseEntries" -> resolve(b, "traverseFn", fn, id, v, log)
      [] op = "boxEntries" -> Res(Ret(IF isFlowBox(v) THEN v ELSE _ofWithConfig(b, v)), log)

\* a map over the entries that visits the last entry first
RECURSIVE MapEntriesBackwards(_, _, _, _, _, _)
MapEntriesBackwards(b, op, fn, id, entries, log) ==
    IF entries = <<>> THEN Res(Ret(<<>>), log)
    ELSE Bind(MapEntriesBackwards(b, op, fn, id, Tail(entries), log),
              LAMBDA rest, l :
                  Bind(EntryOp(b, op, fn, id, Head(entries).v, l),
                       LAMBDA v, m : Res(Ret(<<Entry(Head(entries).k, v)>> \o rest), m)))

\* cxt.entries.map(([k, v]) => [k, ...]): the entries in order; what one of
\* them throws ends the map
RECURSIVE MapEntries(_, _, _, _, _, _)
MapEntries(b, op, fn, id, entries, log) ==
    IF entries = <<>> THEN Res(Ret(<<>>), log)
    ELSE Bind(EntryOp(b, op, fn, id, Head(entries).v, log),
              LAMBDA v, l :
                  Bind(MapEntries(b, op, fn, id, Tail(entries), l),
                       LAMBDA rest, m : Res(Ret(<<Entry(Head(entries).k, v)>> \o rest), m)))

\* the TypeError of  undefined.map(...)
TypeError == Err(9)

\* (cxt) => ({ ...cxt, entries: cxt.entries.map(...) }); a value that is no
\* { src, entries } object has no entries to map
EntriesStage(b, op, fn, id, cxt, log) ==
    IF cxt.t # "ctx" THEN Res(Throw(TypeError), log)
    ELSE Bind(MapEntries(b, op, fn, id, cxt.entries, log),
              LAMBDA entries, l : Res(Ret(Ctx(cxt.src, entries)), l))

\* a filter that tests the promise a predicate returns, not its fulfilment
filterOkNotAwaiting(fn, id, v, log) ==
    Bind(Invoke(fn, id, "filter", v, log),
         LAMBDA bool, l : Res(Ret(IF Truthy(bool) THEN v ELSE Null), l))

\* the onOk of filter: the value if the predicate's answer is truthy
filterOk(fn, id, v, log) ==
    Bind(Invoke(fn, id, "filter", v, log),
         LAMBDA bool, l :
             IF isPromise(bool) THEN Res(Ret(Then(bool, [c |-> "filterBool", keep |-> v])), l)
             ELSE Res(Ret(IF Truthy(bool) THEN v ELSE Null), l))

\* a flatMap that returns what fn returned, a box included
flatMapOkKeepingBox(b, fn, id, v, log) == Invoke(fn, id, "flatMap", v, log)

\* the onOk of flatMap: (v) => this._resolve(fn(v), FlowBox._unbox)
flatMapOk(b, fn, id, v, log) ==
    Bind(Invoke(fn, id, "flatMap", v, log),
         LAMBDA w, l : resolve(b, "unbox", fn, id, w, l))

\* the onOk of each combinator that goes through _resolve
OnOk(b, op, fn, id, v, log) ==
    CASE op = "map" -> Invoke(fn, id, "map", v, log)
      [] op = "filter" -> filterOk(fn, id, v, log)
      [] op = "flatMap" -> flatMapOk(b, fn, id, v, log)
      [] op = "unbox" -> _unbox(v, log)
      [] op = "unboxDeep" -> _unboxDeep(v, log)
      [] op = "ap" ->
           IF ~isFunction(v) THEN Res(Ret(v), log)
           ELSE Bind(_unbox(boxes[id].thunk.fb, log),
                     LAMBDA x, l : resolve(b, "apply", FnName(v), id, x, l))
      [] op = "apply" -> Invoke(fn, id, "ap", v, log)
      [] op = "toCtx" -> Res(Ret(Ctx(v, toEntries(v))), log)
      [] op \in {"unboxEntries", "traverseEntries", "boxEntries"} ->
           EntriesStage(b, op, fn, id, v, log)
      [] op = "traverseFn" -> Invoke(fn, id, "traverse", v, log)
      [] op = "fromCtx" ->
           Res(Ret(IF v.t = "ctx" THEN fromEntries(v.entries, v.src) ELSE Undefined), log)

\* resolve without its bad-value test on the synchronous path
resolveIgnoringBadValues(b, op, fn, id, val, log) ==
    IF isPromise(val) THEN Res(Ret(Then(val, K("resolve", b, fn, id) @@ [op |-> op])), log)
    ELSE Caught(OnOk(b, op, fn, id, val, log))

\* resolve without its promise branch: a promise is handed to onOk
resolveWithoutThen(b, op, fn, id, val, log) ==
    IF isBadValue(val, boxes[b].config.badValues) THEN Res(Ret(identity(val)), log)
    ELSE Caught(OnOk(b, op, fn, id, val, log))

\* resolve without its try / catch: what onOk throws leaves it
resolveNotCatching(b, op, fn, id, val, log) ==
    IF isPromise(val) THEN Res(Ret(Then(val, K("resolve", b, fn, id) @@ [op |-> op])), log)
    ELSE IF isBadValue(val, boxes[b].config.badValues) THEN Res(Ret(identity(val)), log)
    ELSE OnOk(b, op, fn, id, val, log)

\* FlowBox.resolve with the default onError and onBad (identity), called by
\* the code of box b
resolve(b, op, fn, id, val, log) ==
    IF isPromise(val) THEN Res(Ret(Then(val, K("resolve", b, fn, id) @@ [op |-> op])), log)
    ELSE IF _isBadValue(b, val) THEN Res(Ret(identity(val)), log)
    ELSE Caught(OnOk(b, op, fn, id, val, log))

\* () => this._resolve(this.value, onOk): this.value is evaluated first, and
\* what it throws leaves the thunk
resolveThunk(th, log) ==
    Bind(Value(th.src, log), LAMBDA v, l : resolve(th.src, th.op, th.fn, th.id, v, l))

\* [stage, ...].reduce((v, func) => this._resolve(v, func), val)
RECURSIVE Reduce(_, _, _, _, _, _)
Reduce(b, stages, fn, id, val, log) ==
    IF stages = <<>> THEN Res(Ret(val), log)
    ELSE Bind(resolve(b, Head(stages), fn, id, val, log),
              LAMBDA v, l : Reduce(b, Tail(stages), fn, id, v, l))

traverseStages ==
    <<"unboxDeep", "toCtx", "unboxEntries", "traverseEntries", "unboxEntries", "fromCtx">>
sequenceStages == <<"toCtx", "unboxEntries", "fromCtx">>
distributeStages == <<"toCtx", "boxEntries", "fromCtx">>

\* the thunks of traverse, sequence and distribute:  const val = this.value;
\* return [...].reduce(...)
reduceThunk(th, log) ==
    Bind(Value(th.src, log),
         LAMBDA v, l :
             Reduce(th.src,
                    CASE th.op = "traverse" -> traverseStages
                      [] th.op = "sequence" -> sequenceStages
                      [] th.op = "distribute" -> distributeStages,
                    th.fn, th.id, v, l))

\* try { const val = this.value; return fn(val) } catch (err) { return err }
mutateThunk(th, log) ==
    Caught(Bind(Value(th.src, log), LAMBDA v, l : Invoke(th.fn, th.id, "mutate", v, l)))

\* the try block of catch and of recover, once this.value has returned val:
\* the promise with its two reactions, or fn(val) for a val that `handled`
\* says is to be handled, or val
HandlerBody(th, site, thenKind, fnKind, val, handled, log) ==
    IF isPromise(val)
    THEN Res(Ret(Then(Then(val, K(thenKind, th.src, th.fn, th.id)),
                      K(fnKind, th.src, th.fn, th.id))), log)
    ELSE IF handled THEN Invoke(th.fn, th.id, site, val, log)
    ELSE Res(Ret(val), log)

\* catch that handles every bad value, as recover does
catchThunkAnyBadValue(th, log) ==
    OnThrow(Bind(Value(th.src, log),
                 LAMBDA v, l : HandlerBody(th, "catch", "recoverThen", "catchFn", v,
                                           isBadValue(v, boxes[th.src].config.badValues), l)),
            LAMBDA err, l : Invoke(th.fn, th.id, "catch", err, l))

\* try { ...; if (isError(val)) return fn(val); return val } catch (err) {
\* return fn(err) }
catchThunk(th, log) ==
    OnThrow(Bind(Value(th.src, log),
                 LAMBDA v, l : HandlerBody(th, "catch", "catchThen", "catchFn", v, isError(v), l)),
            LAMBDA err, l : Invoke(th.fn, th.id, "catch", err, l))

\* recover that handles errors only, as catch does
recoverThunkErrorsOnly(th, log) ==
    OnThrow(Bind(Value(th.src, log),
                 LAMBDA v, l : HandlerBody(th, "recover", "catchThen", "recoverFn", v,
                                           isError(v), l)),
            LAMBDA err, l : Invoke(th.fn, th.id, "recover", err, l))

\* try { ...; if (this._isBadValue(val)) return fn(val); return val } catch
\* (err) { return fn(err) }
recoverThunk(th, log) ==
    OnThrow(Bind(Value(th.src, log),
                 LAMBDA v, l : HandlerBody(th, "recover", "recoverThen", "recoverFn", v,
                                           _isBadValue(th.src, v), l)),
            LAMBDA err, l : Invoke(th.fn, th.id, "recover", err, l))

\* this._thunk()
CallThunk(th, log) ==
    CASE th.op \in {"of", "thunk"} -> Res(th.out, Append(log, Ev(th.id, th.op, Undefined)))
      [] th.op \in {"map", "filter", "flatMap", "ap"} -> resolveThunk(th, log)
      [] th.op = "flat" -> resolveThunk([th EXCEPT !.op = "unbox"], log)
      [] th.op = "flattenDeep" -> resolveThunk([th EXCEPT !.op = "unboxDeep"], log)
      [] th.op \in {"traverse", "sequence", "distribute"} -> reduceThunk(th, log)
      [] th.op = "mutate" -> mutateThunk(th, log)
      [] th.op = "catch" -> catchThunk(th, log)
      [] th.op = "recover" -> recoverThunk(th, log)

\* a value getter that evaluates the thunk for the first runner call on the
\* box and hands the same value to the later ones
ValueMemoized(b, log) ==
    IF \E k \in DOMAIN results : results[k].box = b
    THEN Res(CallThunk(boxes[b].thunk, <<>>).out, log)
    ELSE CallThunk(boxes[b].thunk, log)

\* get value()
Value(b, log) == CallThunk(boxes[b].thunk, log)

---------------------------------------------------------------------------
(* fold's callbacks: each either returns or throws *)

FoldCall(name, how, arg, log) ==
    Res(IF how = "throw" THEN Throw(Err(5)) ELSE Ret([t |-> "string", v |-> 10, by |-> name]),
        Append(log, Ev(0, name, arg)))

\* the branch of fold with the bad-value test first
foldBranchBadFirst(b, args, v, log) ==
    IF isBadValue(v, boxes[b].config.badValues) THEN FoldCall("onNothing", args.onNothing, v, log)
    ELSE IF isError(v) THEN FoldCall("onError", args.onError, v, log)
    ELSE FoldCall("onOk", args.onOk, v, log)

\* if (isError(v)) return onError(v); if (this._isBadValue(v)) return
\* onNothing(v); return onOk(v)
foldBranch(b, args, v, log) ==
    IF isError(v) THEN FoldCall("onError", args.onError, v, log)
    ELSE IF _isBadValue(b, v) THEN FoldCall("onNothing", args.onNothing, v, log)
    ELSE FoldCall("onOk", args.onOk, v, log)

\* [() => !!onFinally, () => isFunction(onFinally)].every(invoke) && onFinally?.()
foldFinally(args, log) ==
    IF args.onFinally = "none" THEN log ELSE Append(log, Ev(0, "onFinally", Undefined))

---------------------------------------------------------------------------
(* FlowBox.resolve called with continuations of the caller's own: onOk,    *)
(* onError and onBad each return or throw; isBadValue is the classifier of *)
(* a rule list.                                                            *)

\* isBadValue(res) ? onBad(res) : onOk(res)
BadOrOk(args, badValues, res, log) ==
    IF isBadValue(res, badValues) THEN FoldCall("onBad", args.onBad, res, log)
    ELSE FoldCall("onOk", args.onOk, res, log)

\* a resolve that hands a promise to the continuations as it is
staticResolveNotAwaiting(val, args, badValues, log) ==
    OnThrow(BadOrOk(args, badValues, val, log),
            LAMBDA err, l : FoldCall("onError", args.onError, err, l))

\* try { if (isPromise(val)) return val.then(...); if (isBadValue(val))
\* return onBad(val); return onOk(val) } catch (err) { return onError(err) }
staticResolve(val, args, badValues, log) ==
    IF isPromise(val)
    THEN Res(Ret(Then(val, [c |-> "resolveWith", args |-> args, badValues |-> badValues])), log)
    ELSE OnThrow(BadOrOk(args, badValues, val, log),
                 LAMBDA err, l : FoldCall("onError", args.onError, err, l))

---------------------------------------------------------------------------
(* Reactions: what a registered then/catch/finally callback does when the  *)
(* promise before it has settled as (st, pv).  The answer is the           *)
(* settlement of the promise the registration returned, and, when the      *)
(* callback returned a promise, the reactions that promise still has to    *)
(* run first (pre).                                                        *)

Pass(st, pv, log) == [st |-> st, pv |-> pv, pre |-> <<>>, log |-> log]

Adopt(r) ==
    IF r.out.k = "throw" THEN Pass("rej", r.out.v, r.log)
    ELSE IF isPromise(r.out.v)
         THEN [st |-> r.out.v.st, pv |-> r.out.v.pv, pre |-> r.out.v.ks, log |-> r.log]
         ELSE Pass("ful", r.out.v, r.log)

React(k, st, pv, log) ==
    CASE k.c = "resolve" ->
           IF st = "rej" THEN Pass(st, pv, log)
           ELSE IF _isBadValue(k.box, pv) THEN Pass("ful", identity(pv), log)
           ELSE Adopt(OnOk(k.box, k.op, k.fn, k.id, pv, log))
      [] k.c = "resolveWith" ->
           IF st = "rej" THEN Pass(st, pv, log)
           ELSE Adopt(BadOrOk(k.args, k.badValues, pv, log))
      [] k.c = "unbox" ->
           IF st = "rej" THEN Pass(st, pv, log) ELSE Adopt(_unbox(pv, log))
      [] k.c = "unboxDeep" ->
           IF st = "rej" THEN Pass(st, pv, log) ELSE Adopt(_unboxDeep(pv, log))
      [] k.c = "filterBool" ->
           IF st = "rej" THEN Pass(st, pv, log)
           ELSE Pass("ful", IF Truthy(pv) THEN k.keep ELSE Null, log)
      [] k.c = "catchIdentity" -> Pass("ful", identity(pv), log)
      [] k.c = "catchThen" ->
           IF st = "ful" /\ isError(pv) THEN Adopt(Invoke(k.fn, k.id, "catch", pv, log))
           ELSE Pass(st, pv, log)
      [] k.c = "recoverThen" ->
           IF st = "ful" /\ _isBadValue(k.box, pv)
           THEN Adopt(Invoke(k.fn, k.id, "recover", pv, log))
           ELSE Pass(st, pv, log)
      [] k.c = "catchFn" ->
           IF st = "rej" THEN Adopt(Invoke(k.fn, k.id, "catch", pv, log))
           ELSE Pass(st, pv, log)
      [] k.c = "recoverFn" ->
           IF st = "rej" THEN Adopt(Invoke(k.fn, k.id, "recover", pv, log))
           ELSE Pass(st, pv, log)
      [] k.c = "foldThen" ->
           IF st = "rej" THEN Pass(st, pv, log)
           ELSE Adopt(foldBranch(k.box, k.args, pv, log))
      [] k.c = "foldCatch" ->
           IF st = "rej" THEN Adopt(FoldCall("onError", k.args.onError, pv, log))
           ELSE Pass(st, pv, log)
      [] k.c = "foldFinally" -> Pass(st, pv, foldFinally(k.args, log))

\* the settlement a promise ends with, once all its reactions have run
RECURSIVE Final(_, _, _)
FinalAfter(r, ks) == Final(r.st, r.pv, r.pre \o ks)
Final(st, pv, ks) ==
    IF ks = <<>> THEN [st |-> st, pv |-> pv]
    ELSE FinalAfter(React(Head(ks), st, pv, <<>>), Tail(ks))

NoTask == [st |-> "none", pv |-> Undefined, ks |-> <<>>]

\* the promise chain a runner's evaluation has started, if its value is one;
\* a collection is kept for the promises among its elements
TaskOf(out) ==
    IF out.k = "ret" /\ isPromise(out.v) THEN [st |-> out.v.st, pv |-> out.v.pv, ks |-> out.v.ks]
    ELSE IF out.k = "ret" /\ IsCollection(out.v) THEN [NoTask EXCEPT !.pv = out.v]
    ELSE NoTask

---------------------------------------------------------------------------
(* The inputs the operations are tried with *)

OfValues == {Num(1), Null, Undefined, NaN, Err(1)}

\* what a user's producer does when it is called
Producers ==
    {Ret(Num(1)), Throw(Err(1)), Throw(Str(1)),
     Ret(Promise("ful", Num(1))), Ret(Promise("ful", Null)), Ret(Promise("ful", NaN)),
     Ret(Promise("ful", Err(1))), Ret(Promise("rej", Err(1))), Ret(Promise("rej", Str(1)))}

MapFns == {"inc", "toNull", "toError", "throwError", "throwString", "asyncInc", "asyncThrow"}
FilterFns == {"isOne", "asyncIsOne"}
MutateFns == {"inc", "throwError"}
HandlerFns == {"ten", "throwError"}

\* the argument of withConfig / defineConfig: an object with or without the
\* badValues key
PartialConfigs == {[badValues |-> <<Num(1)>>], [badValues |-> <<Null>>], <<>>}

FoldArgs ==
    [onError : {"ret", "throw"}, onNothing : {"ret", "throw"}, onOk : {"ret", "throw"},
     onFinally : {"none", "ret"}]

\* a spread that adds the given rules to the inherited ones
SpreadMerging(config, newConfig) ==
    [badValues |-> IF "badValues" \in DOMAIN newConfig
                   THEN config.badValues \o newConfig.badValues
                   ELSE config.badValues]

\* { ...config, ...newConfig }
Spread(config, newConfig) ==
    [badValues |-> IF "badValues" \in DOMAIN newConfig THEN newConfig.badValues
                   ELSE config.badValues]

---------------------------------------------------------------------------
(* Static operations *)

defineConfig(newConfig) ==
    /\ staticDefaultConfig' = Spread(staticDefaultConfig, newConfig)
    /\ UNCHANGED <<boxes, results, tasks, calls>>

\* a static restoreDefaults that leaves no rule at all
restoreDefaultsStaticToNone ==
    /\ staticDefaultConfig' = [badValues |-> <<>>]
    /\ UNCHANGED <<boxes, results, tasks, calls>>

\* static restoreDefaults()
restoreDefaultsStatic ==
    /\ staticDefaultConfig' = defaultConfig
    /\ UNCHANGED <<boxes, results, tasks, calls>>

\* new FlowBox(_thunk, _config)
New(th, config) ==
    /\ Len(boxes) < MaxBoxes
    /\ boxes' = Append(boxes, Box(th, config))
    /\ UNCHANGED <<staticDefaultConfig, results, tasks, calls>>

NextId == Len(boxes) + 1

\* FlowBox.of(v)
of(v) == New(ThunkOf("of", NextId, 0, "", Ret(v)), staticDefaultConfig)

\* FlowBox.thunk(t)
thunk(t) == New(ThunkOf("thunk", NextId, 0, "", t), staticDefaultConfig)

---------------------------------------------------------------------------
(* Combinators: each returns a new box around a new thunk *)

\* this._thunkWithConfig(() => ...)
\* a combinator that evaluates the box it is called on when it is called
_thunkWithConfigEvaluating(b, th) ==
    /\ Len(boxes) < MaxBoxes
    /\ boxes' = Append(boxes, Box(th, boxes[b].config))
    /\ calls' = Append(calls, Value(b, <<>>).log)
    /\ UNCHANGED <<staticDefaultConfig, results, tasks>>

_thunkWithConfig(b, th) == New(th, boxes[b].config)

\* the closure a combinator of box b builds around the user's function
Closure(b, op, fn) == ThunkOf(op, NextId, b, fn, Ret(Undefined))

map(b, fn) == _thunkWithConfig(b, Closure(b, "map", fn))
filter(b, predicate) == _thunkWithConfig(b, Closure(b, "filter", predicate))
flatMap(b, fn) == _thunkWithConfig(b, Closure(b, "flatMap", fn))
flat(b) == _thunkWithConfig(b, Closure(b, "flat", ""))
flattenDeep(b) == _thunkWithConfig(b, Closure(b, "flattenDeep", ""))
ap(b, fb) == _thunkWithConfig(b, Closure(b, "ap", "") @@ [fb |-> fb])
traverse(b, fn) == _thunkWithConfig(b, Closure(b, "traverse", fn))
sequence(b) == _thunkWithConfig(b, Closure(b, "sequence", ""))
distribute(b) == _thunkWithConfig(b, Closure(b, "distribute", ""))
mutate(b, fn) == _thunkWithConfig(b, Closure(b, "mutate", fn))
catch(b, fn) == _thunkWithConfig(b, Closure(b, "catch", fn))
recover(b, fn) == _thunkWithConfig(b, Closure(b, "recover", fn))

\* a withConfig that also writes the new configuration into the receiver
withConfigInPlace(b, newConfig) ==
    /\ Len(boxes) < MaxBoxes
    /\ boxes' = Append([boxes EXCEPT ![b].config = Spread(boxes[b].config, newConfig)],
                       Box(boxes[b].thunk, Spread(boxes[b].config, newConfig)))
    /\ UNCHANGED <<staticDefaultConfig, results, tasks, calls>>

withConfig(b, newConfig) == New(boxes[b].thunk, Spread(boxes[b].config, newConfig))
restoreDefaults(b) == New(boxes[b].thunk, staticDefaultConfig)

---------------------------------------------------------------------------
(* Runners *)

\* a runner call: what it returned or threw, the promise chain it started,
\* the user functions it invoked
Ran(runner, b, args, out, task, log) ==
    /\ results' = Append(results, [runner |-> runner, box |-> b, args |-> args, out |-> out])
    /\ tasks' = Append(tasks, task)
    /\ calls' = Append(calls, log)
    /\ UNCHANGED staticDefaultConfig

NoArgs == [onError |-> "ret", onNothing |-> "ret", onOk |-> "ret", onFinally |-> "none"]

\* run that returns the promise as it is
runOutWithoutCatch(r) ==
    IF r.out.k = "throw" THEN Ret(r.out.v) ELSE Ret(r.out.v)

runOut(r) ==
    IF r.out.k = "throw" THEN Ret(r.out.v)
    ELSE IF isPromise(r.out.v) THEN Ret(Then(r.out.v, [c |-> "catchIdentity"]))
    ELSE Ret(r.out.v)

\* the runner returns or throws `out`, having invoked `log`
Returns(runner, b, args, out, log) == Ran(runner, b, args, out, TaskOf(out), log)

runOf(b, r) == Returns("run", b, NoArgs, runOut(r), r.log)

run(b) ==
    /\ Len(results) < MaxRuns
    /\ runOf(b, Value(b, <<>>))
    /\ UNCHANGED boxes

\* unwrap that returns an Error instead of throwing it
unwrapOutNeverThrows(r) ==
    IF r.out.k = "throw" THEN r.out ELSE Ret(r.out.v)

unwrapOut(r) ==
    IF r.out.k = "throw" THEN r.out
    ELSE IF isError(r.out.v) THEN Throw(r.out.v)
    ELSE Ret(r.out.v)

unwrapOf(b, r) == Returns("unwrap", b, NoArgs, unwrapOut(r), r.log)

unwrap(b) ==
    /\ Len(results) < MaxRuns
    /\ unwrapOf(b, Value(b, <<>>))
    /\ UNCHANGED boxes

\* finally { ... onFinally?.() } after a body that has ended as `body`
AndFinally(args, body) == Res(body.out, foldFinally(args, body.log))

\* the try / catch of fold, before its finally block
foldBody(b, args, r) ==
    IF r.out.k = "throw" THEN FoldCall("onError", args.onError, r.out.v, r.log)
    ELSE IF isPromise(r.out.v)
    THEN Res(Ret(Then(Then(Then(r.out.v, [c |-> "foldThen", box |-> b, args |-> args]),
                           [c |-> "foldCatch", args |-> args]),
                      [c |-> "foldFinally", args |-> args])), r.log)
    ELSE OnThrow(foldBranch(b, args, r.out.v, r.log),
                 LAMBDA err, l : FoldCall("onError", args.onError, err, l))

\* fold whose finally block does not test whether val is a promise
foldOutFinallyAlways(b, args, r) == AndFinally(args, foldBody(b, args, r))

\* the whole call: the finally block runs onFinally unless val is a promise
foldOut(b, args, r) ==
    IF r.out.k = "ret" /\ isPromise(r.out.v) THEN foldBody(b, args, r)
    ELSE AndFinally(args, foldBody(b, args, r))

foldOf(b, args, f) == Returns("fold", b, args, f.out, f.log)

fold(b, args) ==
    /\ Len(results) < MaxRuns
    /\ foldOf(b, args, foldOut(b, args, Value(b, <<>>)))
    /\ UNCHANGED boxes

\* what the box collect returns holds: the value, or the error thrown.  A
\* promise is held as the object it is: it settles once, whoever reads it.
\* a promise that has run its reactions
SettledPromise(f) == Promise(f.st, f.pv)
Held(v) == IF isPromise(v) THEN SettledPromise(Final(v.st, v.pv, v.ks)) ELSE v

HeldElements(v) ==
    IF IsCollection(v)
    THEN [v EXCEPT !.items = [j \in DOMAIN v.items |-> Entry(v.items[j].k, Held(v.items[j].v))]]
    ELSE v

HeldWithElements(f) == Promise(f.st, HeldElements(f.pv))

collectValue(r) ==
    IF r.out.k = "ret" /\ isPromise(r.out.v)
    THEN HeldWithElements(Final(r.out.v.st, r.out.v.pv, r.out.v.ks))
    ELSE HeldElements(r.out.v)

collectOf(b, r) ==
    /\ boxes' = Append(boxes, Box(ThunkOf("of", NextId, 0, "", Ret(collectValue(r))),
                                  boxes[b].config))
    /\ Ran("collect", b, NoArgs, Ret(BoxRef(NextId)),
           IF r.out.k = "ret" THEN TaskOf(r.out) ELSE NoTask, r.log)

\* a collect that wraps the producer of the box without calling it
collectLazy(b) ==
    /\ Len(results) < MaxRuns
    /\ Len(boxes) < MaxBoxes
    /\ boxes' = Append(boxes, Box([boxes[b].thunk EXCEPT !.id = NextId], boxes[b].config))
    /\ Ran("collect", b, NoArgs, Ret(BoxRef(NextId)), NoTask, <<>>)

collect(b) ==
    /\ Len(results) < MaxRuns
    /\ Len(boxes) < MaxBoxes
    /\ collectOf(b, Value(b, <<>>))

---------------------------------------------------------------------------
(* The host runs the next reaction of a promise chain *)

\* the promise p after its first reaction has run with the outcome r
Reacted(p, r) == [p EXCEPT !.st = r.st, !.pv = r.pv, !.ks = r.pre \o Tail(p.ks)]

SettleWith(i, r) ==
    /\ tasks' = [tasks EXCEPT ![i] = Reacted(tasks[i], r)]
    /\ calls' = [calls EXCEPT ![i] = r.log]

Settle(i) ==
    /\ tasks[i].st # "none"
    /\ tasks[i].ks # <<>>
    /\ SettleWith(i, React(Head(tasks[i].ks), tasks[i].st, tasks[i].pv, calls[i]))
    /\ UNCHANGED <<boxes, staticDefaultConfig, results>>

SettleElementAs(i, j, e, r) ==
    /\ tasks' = [tasks EXCEPT ![i].pv.items[j].v = Reacted(e, r)]
    /\ calls' = [calls EXCEPT ![i] = r.log]

SettleElementWith(i, j, e) == SettleElementAs(i, j, e, React(Head(e.ks), e.st, e.pv, calls[i]))

\* the host runs the next reaction of a promise that is element j of the
\* collection runner call i has produced
SettleElement(i, j) ==
    /\ tasks[i].ks = <<>>
    /\ IsCollection(tasks[i].pv)
    /\ j \in DOMAIN tasks[i].pv.items
    /\ isPromise(tasks[i].pv.items[j].v)
    /\ tasks[i].pv.items[j].v.ks # <<>>
    /\ SettleElementWith(i, j, tasks[i].pv.items[j].v)
    /\ UNCHANGED <<boxes, staticDefaultConfig, results>>

---------------------------------------------------------------------------

Init ==
    /\ boxes = <<>>
    /\ staticDefaultConfig = defaultConfig
    /\ results = <<>>
    /\ tasks = <<>>
    /\ calls = <<>>

\* One pipeline: a box built by of or thunk, the boxes derived from it with
\* map, catch, recover and withConfig (siblings included), one call of run or
\* unwrap on any of them, and the reactions of the promise chain it started.
Next ==
    \/ \E v \in OfValues : boxes = <<>> /\ of(v)
    \/ \E t \in Producers : boxes = <<>> /\ thunk(t)
    \/ \E b \in DOMAIN boxes, fn \in MapFns : Len(boxes) < MaxChain /\ map(b, fn)
    \/ \E b \in DOMAIN boxes, fn \in HandlerFns : Len(boxes) < MaxChain /\ catch(b, fn)
    \/ \E b \in DOMAIN boxes, fn \in HandlerFns : Len(boxes) < MaxChain /\ recover(b, fn)
    \/ \E b \in DOMAIN boxes, c \in PartialConfigs : Len(boxes) < MaxChain /\ withConfig(b, c)
    \/ \E b \in DOMAIN boxes : results = <<>> /\ run(b)
    \/ \E b \in DOMAIN boxes : results = <<>> /\ unwrap(b)
    \/ \E i \in DOMAIN tasks : Settle(i)

Spec == Init /\ [][Next]_vars

\* One pipeline ended by fold: a box built by of or thunk, boxes derived with
\* map and withConfig, one call of fold on any of them with callbacks that
\* return or throw, with and without onFinally.
NextFold ==
    \/ \E v \in OfValues : boxes = <<>> /\ of(v)
    \/ \E t \in Producers : boxes = <<>> /\ thunk(t)
    \/ \E b \in DOMAIN boxes, fn \in {"inc", "toError", "asyncThrow"} :
           Len(boxes) < MaxChain /\ map(b, fn)
    \/ \E b \in DOMAIN boxes : Len(boxes) < MaxChain /\ withConfig(b, [badValues |-> <<Num(1)>>])
    \/ \E b \in DOMAIN boxes, args \in FoldArgs : results = <<>> /\ fold(b, args)
    \/ \E i \in DOMAIN tasks : Settle(i)

SpecFold == Init /\ [][NextFold]_vars

\* The inputs of the chains built with every combinator
LazyValues == {Num(1), Null, Arr(<<Num(1), Null>>), FnValue("inc")}
LazyProducers == {Ret(Promise("ful", Num(1))), Throw(Err(1))}
LazyFoldArgs == [onError |-> "ret", onNothing |-> "ret", onOk |-> "ret", onFinally |-> "ret"]

\* Boxes built by of and thunk (a box may hold a box built before it), the
\* boxes derived from them with each of the combinators, one call of any of
\* the runners, and the reactions of the promises it started.
NextLazy ==
    \/ \E v \in LazyValues \cup {BoxRef(h) : h \in DOMAIN boxes} :
           Len(boxes) < MaxChain /\ of(v)
    \/ \E t \in LazyProducers : Len(boxes) < MaxChain /\ thunk(t)
    \/ \E b \in DOMAIN boxes : Len(boxes) < MaxChain /\ map(b, "inc")
    \/ \E b \in DOMAIN boxes : Len(boxes) < MaxChain /\ filter(b, "isOne")
    \/ \E b \in DOMAIN boxes : Len(boxes) < MaxChain /\ flatMap(b, "boxInc")
    \/ \E b \in DOMAIN boxes : Len(boxes) < MaxChain /\ flat(b)
    \/ \E b \in DOMAIN boxes, fb \in {Num(1)} \cup {BoxRef(h) : h \in DOMAIN boxes} :
           Len(boxes) < MaxChain /\ ap(b, fb)
    \/ \E b \in DOMAIN boxes, fn \in {"inc", "asyncInc"} : Len(boxes) < MaxChain /\ traverse(b, fn)
    \/ \E b \in DOMAIN boxes : Len(boxes) < MaxChain /\ sequence(b)
    \/ \E b \in DOMAIN boxes : Len(boxes) < MaxChain /\ distribute(b)
    \/ \E b \in DOMAIN boxes : Len(boxes) < MaxChain /\ mutate(b, "inc")
    \/ \E b \in DOMAIN boxes : Len(boxes) < MaxChain /\ recover(b, "ten")
    \/ \E b \in DOMAIN boxes : Len(boxes) < MaxChain /\ catch(b, "ten")
    \/ \E b \in DOMAIN boxes : Len(boxes) < MaxChain /\ withConfig(b, [badValues |-> <<Num(1)>>])
    \/ \E b \in DOMAIN boxes : Len(boxes) < MaxChain /\ restoreDefaults(b)
    \/ \E b \in DOMAIN boxes : results = <<>> /\ run(b)
    \/ \E b \in DOMAIN boxes : results = <<>> /\ unwrap(b)
    \/ \E b \in DOMAIN boxes : results = <<>> /\ fold(b, LazyFoldArgs)
    \/ \E b \in DOMAIN boxes : Len(boxes) < MaxChain /\ results = <<>> /\ collect(b)
    \/ \E i \in DOMAIN tasks : Settle(i)
    \/ \E i \in DOMAIN tasks, j \in 1..2 : SettleElement(i, j)

SpecLazy == Init /\ [][NextLazy]_vars

---------------------------------------------------------------------------
(* Vocabulary of the properties *)

\* the invocations by runner call i of the user function of stage id
CallsOf(i, id) == SelectSeq(calls[i], LAMBDA e : e.id = id /\ e.site \notin {"of", "thunk"})

\* the invocations by runner call i of map callbacks
MapCalls(i) == SelectSeq(calls[i], LAMBDA e : e.site = "map")

\* the promise chain of runner call i has run all its reactions
Settled(i) == tasks[i].st # "none" /\ tasks[i].ks = <<>>

\* null, undefined, NaN, an Error instance
DefaultBad(v) == v.t \in {"null", "undefined", "nan", "error"}

\* the constructor call at the origin of a thunk
RECURSIVE OriginOf(_)
OriginOf(th) == IF th.op \in {"of", "thunk"} THEN th ELSE OriginOf(boxes[th.src].thunk)

\* the thunk is a chain of one or more map stages over its origin, each
\* built on a box with the default configuration
RECURSIVE MapsOnly(_)
MapsOnly(th) ==
    \/ th.op \in {"of", "thunk"}
    \/ /\ th.op = "map"
       /\ boxes[th.src].config = defaultConfig
       /\ MapsOnly(boxes[th.src].thunk)

\* C1: for a value b that is bad under the default configuration, a chain
\* of maps over of(b) run with run() returns b and invokes no map callback;
\* over a producer whose promise fulfils with b, run() returns a promise
\* that fulfils with b, and no map callback is ever invoked.
C1_MapSkipsBadValue ==
    \A i \in DOMAIN results :
        LET r == results[i]
            th == boxes[r.box].thunk
            o == OriginOf(th).out
        IN  (r.runner = "run" /\ th.op = "map" /\ MapsOnly(th) /\ o.k = "ret") =>
              /\ DefaultBad(o.v) => r.out = Ret(o.v) /\ MapCalls(i) = <<>>
              /\ (isPromise(o.v) /\ o.v.st = "ful" /\ DefaultBad(o.v.pv)) =>
                    /\ isPromise(r.out.v)
                    /\ MapCalls(i) = <<>>
                    /\ Settled(i) => tasks[i].st = "ful" /\ tasks[i].pv = o.v.pv

\* two maps over a producer whose promise fulfilled with NaN, run and settled
C1_Witness ==
    \E i \in DOMAIN results :
        LET th == boxes[results[i].box].thunk IN
        /\ results[i].runner = "run" /\ th.op = "map" /\ MapsOnly(th)
        /\ boxes[th.src].thunk.op = "map"
        /\ OriginOf(th).out = Ret(Promise("ful", NaN))
        /\ Settled(i)

\* a map stage directly over of(v) or thunk(() => v), v not a promise and
\* not bad under the configuration of the box map was called on
PlainMapOver(th) ==
    /\ th.op = "map"
    /\ boxes[th.src].thunk.op \in {"of", "thunk"}
    /\ boxes[th.src].thunk.out.k = "ret"
    /\ ~isPromise(boxes[th.src].thunk.out.v)
    /\ ~isBadValue(boxes[th.src].thunk.out.v, boxes[th.src].config.badValues)

FnOf(id) == boxes[id].thunk.fn

\* C4 as stated: run() never throws, and when a map callback throws, no map
\* callback is invoked after it and run() returns (or its promise fulfils
\* with) what was thrown; when the producer throws, run() returns what was
\* thrown and no map callback is invoked.
C4_RunReturnsThrownAndSkipsMaps ==
    \A i \in DOMAIN results :
        LET r == results[i]
            th == boxes[r.box].thunk
            o == OriginOf(th).out
            evs == MapCalls(i)
        IN  (r.runner = "run" /\ th.op = "map" /\ MapsOnly(th)) =>
              /\ r.out.k = "ret"
              /\ o.k = "throw" => r.out = Ret(o.v) /\ evs = <<>>
              /\ \A j \in DOMAIN evs :
                    LET c == Call(FnOf(evs[j].id), evs[j].arg) IN
                    c.k = "throw" =>
                      /\ j = Len(evs)
                      /\ ~isPromise(r.out.v) => r.out = Ret(c.v)
                      /\ Settled(i) => tasks[i].st = "ful" /\ tasks[i].pv = c.v

\* what evaluating the box a stage was built on gives
Upstream(th) == Value(th.src, <<>>).out

\* the settlement a promise value ends with
FinalOf(p) == Final(p.st, p.pv, p.ks)

\* C7: unwrap() throws the evaluated value when it is an Error instance,
\* that same instance, and returns any other evaluated value unchanged, a
\* bad value or a promise included.
C7_UnwrapThrowsOnlyErrors ==
    \A i \in DOMAIN results :
        LET r == results[i]
            e == Value(r.box, <<>>).out
        IN  (r.runner = "unwrap" /\ e.k = "ret") =>
              IF isError(e.v) THEN r.out = Throw(e.v) ELSE r.out = Ret(e.v)

\* unwrap threw the Error a map callback returned
C7_Witness ==
    \E i \in DOMAIN results :
        /\ results[i].runner = "unwrap"
        /\ boxes[results[i].box].thunk.op = "map"
        /\ results[i].out = Throw(Err(2))

\* no producer and no callback of the chain returns a promise
RECURSIVE SyncChain(_)
SyncChain(th) ==
    IF th.op \in {"of", "thunk"} THEN ~(th.out.k = "ret" /\ isPromise(th.out.v))
    ELSE /\ th.fn \notin {"asyncInc", "asyncThrow", "asyncIsOne"}
         /\ SyncChain(boxes[th.src].thunk)

\* what run() returns for a map stage of box b with callback fn over the
\* plain value v
SyncMapRun(b, fn, id, v) == runOut(resolve(b, "map", fn, id, v, <<>>)).v

\* C8: over a producer whose promise fulfils with a non-bad v, map(f).run()
\* returns a promise, f is not invoked while the promise's reaction for the
\* map stage has not run, and the promise fulfils with f(v): with what the
\* synchronous chain of(v).map(f).run() returns or, if that is a promise,
\* fulfils with.  A chain without promises returns a non-promise from run().
C8_AsyncTransparency ==
    \A i \in DOMAIN results :
        LET r == results[i]
            th == boxes[r.box].thunk
            o == boxes[th.src].thunk
        IN  r.runner = "run" =>
              /\ SyncChain(th) => ~isPromise(r.out.v)
              /\ ( /\ th.op = "map" /\ o.op = "thunk" /\ o.out.k = "ret"
                   /\ isPromise(o.out.v) /\ o.out.v.st = "ful"
                   /\ ~_isBadValue(th.src, o.out.v.pv) ) =>
                    LET v == o.out.v.pv
                        fv == Call(th.fn, v)
                        sync == SyncMapRun(th.src, th.fn, th.id, v)
                    IN  /\ isPromise(r.out.v)
                        /\ (tasks[i].ks # <<>> /\ Head(tasks[i].ks).c = "resolve")
                              => CallsOf(i, th.id) = <<>>
                        /\ Settled(i) =>
                              /\ CallsOf(i, th.id) = <<Ev(th.id, "map", v)>>
                              /\ tasks[i].st = "ful"
                              /\ (fv.k = "ret" /\ ~isPromise(fv.v)) => tasks[i].pv = fv.v
                              /\ tasks[i].pv = IF isPromise(sync) THEN FinalOf(sync).pv
                                               ELSE sync

\* thunk(async () => 1).map(x => x + 1).run() has fulfilled with 2
C8_Witness ==
    \E i \in DOMAIN results :
        LET th == boxes[results[i].box].thunk IN
        /\ results[i].runner = "run" /\ th.op = "map" /\ th.fn = "inc"
        /\ boxes[th.src].thunk.out = Ret(Promise("ful", Num(1)))
        /\ Settled(i) /\ tasks[i].pv = Num(2)

\* C9: catch(fn) invokes fn when the upstream value is an Error instance,
\* when evaluating upstream throws, and when the upstream promise rejects
\* or fulfils with an Error, and in no other case; a value that is not an
\* error, null, undefined and NaN included, passes through unchanged.
C9_CatchOnlyErrors ==
    \A i \in DOMAIN results :
        LET r == results[i]
            th == boxes[r.box].thunk
            up == Upstream(th)
            mine == CallsOf(i, th.id)
        IN  (r.runner = "run" /\ th.op = "catch") =>
              /\ up.k = "throw" => mine # <<>> /\ mine[1].arg = up.v
              /\ (up.k = "ret" /\ ~isPromise(up.v)) =>
                    IF isError(up.v) THEN mine # <<>> /\ mine[1].arg = up.v
                    ELSE mine = <<>> /\ r.out = Ret(up.v)
              /\ (up.k = "ret" /\ isPromise(up.v)) =>
                    LET f == FinalOf(up.v) IN
                    IF f.st = "rej" \/ isError(f.pv)
                    THEN Settled(i) => mine # <<>> /\ mine[1].arg = f.pv
                    ELSE mine = <<>> /\ (Settled(i) => tasks[i].st = "ful" /\ tasks[i].pv = f.pv)

\* thunk(async () => null).catch(() => 10).run() has fulfilled with null
C9_Witness ==
    \E i \in DOMAIN results :
        LET th == boxes[results[i].box].thunk IN
        /\ results[i].runner = "run" /\ th.op = "catch" /\ th.fn = "ten"
        /\ boxes[th.src].thunk.out = Ret(Promise("ful", Null))
        /\ Settled(i) /\ tasks[i].pv = Null /\ CallsOf(i, th.id) = <<>>

\* C10: recover(fn) invokes fn when the upstream value is bad under the
\* configuration of the box recover was called on, when evaluating
\* upstream throws, and when the upstream promise rejects or fulfils with
\* such a bad value, and in no other case; when fn returns, what it
\* returns is the result; any other value passes through unchanged.
C10_RecoverExactlyBad ==
    \A i \in DOMAIN results :
        LET r == results[i]
            th == boxes[r.box].thunk
            up == Upstream(th)
            mine == CallsOf(i, th.id)
            badValues == boxes[th.src].config.badValues
        IN  (r.runner = "run" /\ th.op = "recover") =>
              /\ up.k = "throw" =>
                    /\ mine # <<>> /\ mine[1].arg = up.v
                    /\ Call(th.fn, up.v).k = "ret" => r.out = Call(th.fn, up.v)
              /\ (up.k = "ret" /\ ~isPromise(up.v)) =>
                    IF isBadValue(up.v, badValues)
                    THEN /\ mine # <<>> /\ mine[1].arg = up.v
                         /\ Call(th.fn, up.v).k = "ret" => r.out = Call(th.fn, up.v)
                    ELSE mine = <<>> /\ r.out = Ret(up.v)
              /\ (up.k = "ret" /\ isPromise(up.v)) =>
                    LET f == FinalOf(up.v) IN
                    IF f.st = "rej" \/ isBadValue(f.pv, badValues)
                    THEN Settled(i) =>
                           /\ mine # <<>> /\ mine[1].arg = f.pv
                           /\ Call(th.fn, f.pv).k = "ret" =>
                                 tasks[i].st = "ful" /\ tasks[i].pv = Call(th.fn, f.pv).v
                    ELSE mine = <<>> /\ (Settled(i) => tasks[i].st = "ful" /\ tasks[i].pv = f.pv)

\* a promise that fulfilled with 1 under badValues [1], recovered to 10
C10_Witness ==
    \E i \in DOMAIN results :
        LET th == boxes[results[i].box].thunk IN
        /\ results[i].runner = "run" /\ th.op = "recover" /\ th.fn = "ten"
        /\ boxes[th.src].config.badValues = <<Num(1)>>
        /\ Upstream(th) = Ret(Promise("ful", Num(1)))
        /\ Settled(i) /\ tasks[i].pv = Num(10)

\* the invocations by runner call i of fold's three branch callbacks
BranchCalls(i) ==
    SelectSeq(calls[i], LAMBDA e : e.site \in {"onError", "onNothing", "onOk"})

FinallyCalls(i) == SelectSeq(calls[i], LAMBDA e : e.site = "onFinally")

\* the callback fold owes a resolved value v, on a box with these rules
BranchFor(v, badValues) ==
    IF isError(v) THEN "onError"
    ELSE IF isBadValue(v, badValues) THEN "onNothing"
    ELSE "onOk"

\* C5: a fold whose callbacks return invokes exactly one of onError,
\* onNothing, onOk, once: onError with what evaluating the box threw, with
\* the evaluated or fulfilled value when it is an Error instance, and with
\* the reason of a rejection; onNothing with a value that is bad and not an
\* error; onOk with any other value.  Before the promise has settled none
\* or that one has been invoked.
C5_FoldExactlyOneBranch ==
    \A i \in DOMAIN results :
        LET r == results[i]
            e == Value(r.box, <<>>).out
            badValues == boxes[r.box].config.badValues
            got == BranchCalls(i)
        IN  ( /\ r.runner = "fold"
              /\ r.args.onError = "ret" /\ r.args.onNothing = "ret" /\ r.args.onOk = "ret" ) =>
              /\ Len(got) <= 1
              /\ e.k = "throw" => got = <<Ev(0, "onError", e.v)>>
              /\ (e.k = "ret" /\ ~isPromise(e.v)) =>
                    got = <<Ev(0, BranchFor(e.v, badValues), e.v)>>
              /\ (e.k = "ret" /\ isPromise(e.v) /\ Settled(i)) =>
                    LET f == FinalOf(e.v) IN
                    got = <<Ev(0, IF f.st = "rej" THEN "onError"
                                  ELSE BranchFor(f.pv, badValues), f.pv)>>

\* a fold over a promise that fulfilled with 1, bad under badValues [1],
\* has invoked onNothing
C5_Witness ==
    \E i \in DOMAIN results :
        /\ results[i].runner = "fold"
        /\ results[i].args = [onError |-> "ret", onNothing |-> "ret", onOk |-> "ret",
                              onFinally |-> "none"]
        /\ Value(results[i].box, <<>>).out = Ret(Promise("ful", Num(1)))
        /\ Settled(i)
        /\ BranchCalls(i) = <<Ev(0, "onNothing", Num(1))>>

\* C6: with onFinally given, fold never invokes it twice and never before
\* a branch callback; once the call has returned, or, over a promise, once
\* the promise has settled, it has been invoked exactly once, as the last
\* callback.
C6_FinallyOnceAfterBranch ==
    \A i \in DOMAIN results :
        LET r == results[i]
            e == Value(r.box, <<>>).out
            log == calls[i]
        IN  (r.runner = "fold" /\ r.args.onFinally # "none") =>
              /\ Len(FinallyCalls(i)) <= 1
              /\ \A j \in DOMAIN log :
                    log[j].site = "onFinally" =>
                      /\ j = Len(log)
                      /\ \E h \in 1 .. (j - 1) : log[h].site \in {"onError", "onNothing", "onOk"}
              /\ (~(e.k = "ret" /\ isPromise(e.v)) \/ Settled(i)) => Len(FinallyCalls(i)) = 1

\* a fold with onFinally over a rejected promise: onError, then onFinally
C6_Witness ==
    \E i \in DOMAIN results :
        /\ results[i].runner = "fold"
        /\ results[i].args.onFinally = "ret"
        /\ Value(results[i].box, <<>>).out = Ret(Promise("rej", Err(1)))
        /\ Settled(i)
        /\ SelectSeq(calls[i], LAMBDA e : e.id = 0)
             = <<Ev(0, "onError", Err(1)), Ev(0, "onFinally", Undefined)>>

\* C3: constructing a box (of, thunk) and chaining combinators on it (map,
\* filter, flatMap, flat, ap, traverse, sequence, distribute, mutate, recover,
\* catch, withConfig, restoreDefaults) invokes no producer and no callback:
\* a step that builds a box without calling a runner leaves the invocations
\* as they are, nothing has been invoked as long as no runner has been
\* called, and the call of a runner (run, unwrap, fold, collect) is what
\* invokes the producer at the origin of the chain.
C3_NothingInvokedUntilARunner ==
    [][/\ (boxes' # boxes /\ results' = results) => calls' = calls
       /\ results' = <<>> => calls' = <<>>
       /\ results' # results =>
             /\ Len(calls') = Len(results')
             /\ calls'[Len(calls')] # <<>>
             /\ Head(calls'[Len(calls')]).site \in {"of", "thunk"}]_vars

\* C3 witness: of(1).flatMap(x => FlowBox.of(x + 1)).map(x => x + 1) has been
\* built and then run: the producer and the two callbacks were invoked by
\* run(), which returned 3
C3_Witness ==
    /\ Len(boxes) = 3
    /\ boxes[1].thunk.op = "of" /\ boxes[1].thunk.out = Ret(Num(1))
    /\ boxes[2].thunk.op = "flatMap" /\ boxes[2].thunk.src = 1
    /\ boxes[3].thunk.op = "map" /\ boxes[3].thunk.src = 2
    /\ Len(results) = 1
    /\ results[1].runner = "run" /\ results[1].box = 3 /\ results[1].out = Ret(Num(3))
    /\ [j \in DOMAIN calls[1] |-> calls[1][j].site] = <<"of", "flatMap", "of", "map">>

---------------------------------------------------------------------------
(* Configuration along a chain *)

ConfigValues == {Num(1), Null}
ConfigProducers == {Ret(Promise("ful", Num(1))), Ret(Promise("ful", Null))}

\* One chain and its siblings: a box built by of or thunk under the process
\* default of the moment, boxes derived with every combinator, withConfig
\* and restoreDefaults, one call of run on any of them, and the reactions of
\* the promise chain it started.
NextConfig ==
    \/ defineConfig([badValues |-> <<Num(1)>>])
    \/ restoreDefaultsStatic
    \/ \E v \in ConfigValues : boxes = <<>> /\ of(v)
    \/ \E t \in ConfigProducers : boxes = <<>> /\ thunk(t)
    \/ \E b \in DOMAIN boxes : Len(boxes) < MaxChain /\ map(b, "inc")
    \/ \E b \in DOMAIN boxes : Len(boxes) < MaxChain /\ filter(b, "isOne")
    \/ \E b \in DOMAIN boxes : Len(boxes) < MaxChain /\ flatMap(b, "boxInc")
    \/ \E b \in DOMAIN boxes : Len(boxes) < MaxChain /\ flat(b)
    \/ \E b \in DOMAIN boxes : Len(boxes) < MaxChain /\ flattenDeep(b)
    \/ \E b \in DOMAIN boxes : Len(boxes) < MaxChain /\ ap(b, Num(1))
    \/ \E b \in DOMAIN boxes : Len(boxes) < MaxChain /\ traverse(b, "inc")
    \/ \E b \in DOMAIN boxes : Len(boxes) < MaxChain /\ sequence(b)
    \/ \E b \in DOMAIN boxes : Len(boxes) < MaxChain /\ distribute(b)
    \/ \E b \in DOMAIN boxes : Len(boxes) < MaxChain /\ mutate(b, "inc")
    \/ \E b \in DOMAIN boxes : Len(boxes) < MaxChain /\ catch(b, "ten")
    \/ \E b \in DOMAIN boxes : Len(boxes) < MaxChain /\ recover(b, "ten")
    \/ \E b \in DOMAIN boxes, c \in PartialConfigs : Len(boxes) < MaxChain /\ withConfig(b, c)
    \/ \E b \in DOMAIN boxes : Len(boxes) < MaxChain /\ restoreDefaults(b)
    \/ \E b \in DOMAIN boxes : results = <<>> /\ run(b)
    \/ \E i \in DOMAIN tasks : Settle(i)

SpecConfig == Init /\ [][NextConfig]_vars

\* the box is the one a combinator built (it holds the closure built for it)
Derived(h) == boxes[h].thunk.id = h /\ boxes[h].thunk.op \notin {"of", "thunk"}

\* the stage of the user function invoked once per resolved value
Classifies(th) == th.op \in {"map", "filter", "flatMap"}

\* the value a stage classifies, once it is known: what the box the stage
\* was built on evaluates to, or what that promise fulfils with
Classified(th) ==
    LET up == Upstream(th) IN
    IF up.k = "throw" THEN [known |-> FALSE]
    ELSE IF ~isPromise(up.v) THEN [known |-> TRUE, sync |-> TRUE, v |-> up.v]
    ELSE LET f == FinalOf(up.v) IN
         IF f.st = "ful" THEN [known |-> TRUE, sync |-> FALSE, v |-> f.pv]
         ELSE [known |-> FALSE]

\* the box the last step has built
Built == boxes'[Len(boxes')]

\* every box a combinator derives has the configuration of the box it was
\* derived from
ConfigInherited ==
    \A h \in DOMAIN boxes : Derived(h) => boxes[h].config = boxes[boxes[h].thunk.src].config

\* a stage classifies its value with the configuration of the box its
\* combinator returned, whichever box of the chain is run
ConfigClassifies ==
    \A i \in DOMAIN results :
        LET th == boxes[results[i].box].thunk
            c == Classified(th)
        IN  (results[i].runner = "run" /\ Classifies(th) /\ c.known
             /\ (c.sync \/ Settled(i))) =>
              (CallsOf(i, th.id) = <<>>) = isBadValue(c.v, boxes[th.id].config.badValues)

\* withConfig keeps the producer and replaces the given keys; restoreDefaults
\* keeps the producer and installs the process default
ConfigReplaced ==
    /\ \A b \in DOMAIN boxes, c \in PartialConfigs :
           withConfig(b, c) =>
             /\ Built.thunk = boxes[b].thunk
             /\ "badValues" \in DOMAIN c => Built.config.badValues = c.badValues
             /\ "badValues" \notin DOMAIN c => Built.config = boxes[b].config
    /\ \A b \in DOMAIN boxes :
           restoreDefaults(b) =>
             Built.thunk = boxes[b].thunk /\ Built.config = staticDefaultConfig

\* C11: the configuration withConfig(c) installs is the previous one with
\* the given keys replaced (badValues is exactly the given list); every box
\* a combinator derives afterwards has it, and its stage classifies values
\* with it, until another withConfig or restoreDefaults; a stage built
\* before the withConfig keeps classifying with the earlier configuration.
C11_ConfigPropagates ==
    /\ [](ConfigInherited /\ ConfigClassifies)
    /\ [][ConfigReplaced]_vars

\* of(null).withConfig({ badValues: [1] }).map(x => x + 1) has badValues
\* [1], and run on it invokes the callback with null
C11_Witness ==
    /\ Len(boxes) = 3
    /\ boxes[1].thunk.out = Ret(Null) /\ boxes[1].config = defaultConfig
    /\ boxes[2].thunk = boxes[1].thunk /\ boxes[2].config.badValues = <<Num(1)>>
    /\ boxes[3].thunk.op = "map" /\ boxes[3].thunk.src = 2
    /\ boxes[3].config.badValues = <<Num(1)>>
    /\ \E i \in DOMAIN results :
           /\ results[i].box = 3
           /\ results[i].out = Ret(Num(1))
           /\ CallsOf(i, 3) = <<Ev(3, "map", Null)>>

---------------------------------------------------------------------------
(* A box and the chains derived from it *)

\* A box b built by of or thunk, chains derived from it, with and without a
\* configuration override, a run of any of the boxes, in any order, and the
\* reactions of the promise chains they started.
NextSiblings ==
    \/ \E v \in ConfigValues : boxes = <<>> /\ of(v)
    \/ \E t \in ConfigProducers : boxes = <<>> /\ thunk(t)
    \/ \E b \in DOMAIN boxes : withConfig(b, [badValues |-> <<Num(1)>>])
    \/ \E b \in DOMAIN boxes : map(b, "inc")
    \/ \E b \in DOMAIN boxes : filter(b, "isOne")
    \/ \E b \in DOMAIN boxes : (\A k \in DOMAIN results : results[k].box # b) /\ run(b)
    \/ \E i \in DOMAIN tasks : Settle(i)

SpecSiblings == Init /\ [][NextSiblings]_vars

\* a step leaves every box that exists as it is: its configuration and its
\* producer
BoxesKept == \A h \in DOMAIN boxes : h \in DOMAIN boxes' /\ boxes'[h] = boxes[h]

\* b has the configuration and the producer it was built with
ReceiverAsBuilt ==
    boxes # <<>> =>
    /\ boxes[1].config = defaultConfig
    /\ boxes[1].thunk \in {ThunkOf("of", 1, 0, "", Ret(v)) : v \in ConfigValues}
                          \cup {ThunkOf("thunk", 1, 0, "", t) : t \in ConfigProducers}

\* a stage built on b itself has b's configuration and classifies with it,
\* whatever else was derived from b and run, before or after
SiblingsClassifyAsReceiver ==
    /\ \A h \in DOMAIN boxes :
           (Derived(h) /\ boxes[h].thunk.src = 1) => boxes[h].config = defaultConfig
    /\ \A i \in DOMAIN results :
           LET th == boxes[results[i].box].thunk
               c == Classified(th)
           IN  (Classifies(th) /\ th.src = 1 /\ c.known /\ (c.sync \/ Settled(i))) =>
                 (CallsOf(i, th.id) = <<>>) = DefaultBad(c.v)

\* C12: withConfig and every combinator return a new box and leave every
\* existing box, the receiver included, with its configuration and its
\* producer; a chain derived from b itself, before or after
\* b.withConfig({ badValues: [1] }).map(f) is built and run, has b's
\* configuration and classifies values with it.
C12_ReceiverUnchanged ==
    /\ [](ReceiverAsBuilt /\ SiblingsClassifyAsReceiver)
    /\ [][BoxesKept]_vars

\* b = of(1); b.withConfig({ badValues: [1] }).map(f) is run and skips f;
\* then the sibling b.map(f) is run and invokes f
C12_Witness ==
    /\ Len(boxes) = 4 /\ Len(results) = 2
    /\ boxes[1].thunk.out = Ret(Num(1))
    /\ boxes[2].thunk = boxes[1].thunk /\ boxes[2].config.badValues = <<Num(1)>>
    /\ boxes[3].thunk.op = "map" /\ boxes[3].thunk.src = 2
    /\ boxes[4].thunk.op = "map" /\ boxes[4].thunk.src = 1
    /\ results[1].box = 3 /\ results[1].out = Ret(Num(1)) /\ CallsOf(1, 3) = <<>>
    /\ results[2].box = 4 /\ results[2].out = Ret(Num(2))
    /\ CallsOf(2, 4) = <<Ev(4, "map", Num(1))>>

---------------------------------------------------------------------------
(* Collections *)

\* the sequences of at most n elements of S
SeqsUpTo(S, n) == UNION {[1..k -> S] : k \in 0..n}

\* no two elements of the sequence are the same value
Distinct(vals) == \A i, j \in DOMAIN vals : i # j => vals[i] # vals[j]

\* new Map([['a', x], ['b', y]]) and { a: x, b: y }: the i-th key is Str(i)
Keyed(kind, vals) == Coll(kind, [i \in 1..Len(vals) |-> Entry(Str(i), vals[i])])
\* new Set([x, y])
SetOf(vals) == Coll("set", [i \in 1..Len(vals) |-> Entry(vals[i], vals[i])])

\* the collections of every kind with elements of E, the empty ones included
Collections(E) ==
    {Arr(vals) : vals \in SeqsUpTo(E, MaxLen)}
    \cup {Keyed("map", vals) : vals \in SeqsUpTo(E, MaxLen)}
    \cup {Keyed("object", vals) : vals \in SeqsUpTo(E, MaxLen)}
    \cup {SetOf(vals) : vals \in {w \in SeqsUpTo(E, MaxLen) : Distinct(w)}}

\* plain elements, good and bad; elements that are boxes; pending elements
PlainElements == {Num(1), Num(2), Null}
BoxElements == {InlineBox(Num(1), defaultConfig), InlineBox(Null, defaultConfig)}
PendingElements == {Promise("ful", Num(1)), Promise("ful", Null)}
TraverseFns == {"inc", "ten", "toNull", "asyncInc"}

\* One traversal: a box built by of over a collection of any kind, or by
\* thunk over a producer whose promise fulfils with an array; an override of
\* the rules; traverse with a callback; one call of run; and the reactions
\* of the promises it started, those among the elements included.
NextTraverse ==
    \/ \E c \in Collections(PlainElements) \cup {Null, Num(1)} : boxes = <<>> /\ of(c)
    \/ \E c \in {Arr(vals) : vals \in SeqsUpTo(BoxElements \cup PendingElements, MaxLen)} :
           boxes = <<>> /\ of(c)
    \/ \E c \in {Arr(<<Num(1), Null>>), Arr(<<Promise("ful", Null), Num(2)>>), Null} :
           boxes = <<>> /\ thunk(Ret(Promise("ful", c)))
    \/ \E b \in DOMAIN boxes : Len(boxes) = 1 /\ withConfig(b, [badValues |-> <<Num(1)>>])
    \/ \E b \in DOMAIN boxes, fn \in TraverseFns :
           boxes[Len(boxes)].thunk.op # "traverse" /\ traverse(b, fn)
    \/ \E b \in DOMAIN boxes : results = <<>> /\ run(b)
    \/ \E i \in DOMAIN tasks : Settle(i)
    \/ \E i \in DOMAIN tasks, j \in 1..MaxLen : SettleElement(i, j)

SpecTraverse == Init /\ [][NextTraverse]_vars

\* runner call i is run() on a traverse stage built on the box of a
\* constructor (or on its withConfig copy)
TraverseRun(i) ==
    /\ results[i].runner = "run"
    /\ boxes[results[i].box].thunk.op = "traverse"
    /\ boxes[boxes[results[i].box].thunk.src].thunk.op \in {"of", "thunk"}

\* the stage run by runner call i, and the box it was built on
StageOf(i) == boxes[results[i].box].thunk
SourceOf(i) == boxes[StageOf(i).src]

\* what the box under the stage resolves to: its value, or what its promise
\* fulfils with
ResolvedInput(i) ==
    LET o == SourceOf(i).thunk.out.v IN IF isPromise(o) THEN o.pv ELSE o

\* the value the evaluation ends with is known: no reaction is left to run
OutputReady(i) == tasks[i].ks = <<>>

\* the value run() returned, or the one its promise fulfilled with
Output(i) == IF isPromise(results[i].out.v) THEN tasks[i].pv ELSE results[i].out.v

\* neither a box nor a promise, and not bad under the rules
PlainGood(v, config) == v.t \notin {"box", "promise"} /\ ~isBadValue(v, config.badValues)

\* the callback returns a plain value
PlainFn(fn) == fn \in {"inc", "ten", "toNull"}

\* a run of traverse(fn), fn plain, over a collection of plain good elements
PlainTraverse(i) ==
    /\ TraverseRun(i) /\ OutputReady(i) /\ PlainFn(StageOf(i).fn)
    /\ IsCollection(ResolvedInput(i))
    /\ \A j \in DOMAIN ResolvedInput(i).items :
           PlainGood(ResolvedInput(i).items[j].v, SourceOf(i).config)

\* fn applied to element j of the input
Image(i, j) == Call(StageOf(i).fn, ResolvedInput(i).items[j].v).v

\* the output has the kind and the keys of the input, in the same order, and
\* element j is fn applied to element j of the input
SameShapeMapped(i) ==
    /\ IsCollection(Output(i)) /\ Output(i).t = ResolvedInput(i).t
    /\ Len(Output(i).items) = Len(ResolvedInput(i).items)
    /\ \A j \in DOMAIN ResolvedInput(i).items :
           /\ Output(i).items[j].v = Image(i, j)
           /\ Output(i).t # "set" => Output(i).items[j].k = ResolvedInput(i).items[j].k

\* the first place of the input whose image is y
FirstImage(i, y) ==
    CHOOSE j \in DOMAIN ResolvedInput(i).items :
        Image(i, j) = y /\ \A k \in 1..(j - 1) : Image(i, k) # y

\* the output is the Set of the images: each image once, in the order of
\* their first occurrence
SetOfImages(i) ==
    /\ IsCollection(Output(i)) /\ Output(i).t = "set"
    /\ {Output(i).items[j].v : j \in DOMAIN Output(i).items}
         = {Image(i, j) : j \in DOMAIN ResolvedInput(i).items}
    /\ \A j, k \in DOMAIN Output(i).items :
           j < k => /\ Output(i).items[j].v # Output(i).items[k].v
                    /\ FirstImage(i, Output(i).items[j].v) < FirstImage(i, Output(i).items[k].v)

\* C13 as stated: for an array, a Map, a Set or a plain record, traverse(fn)
\* gives a container of the same kind with the same keys in the same order
\* and as many elements, element by element fn of the input's element
C13_TraverseKeepsShape ==
    \A i \in DOMAIN results : PlainTraverse(i) => SameShapeMapped(i)

\* C13 amended: that holds for an array, a Map and a plain record; for a Set
\* the output is the Set of the images, each once in the order of first
\* occurrence, which has as many elements as the input exactly when fn maps
\* no two elements to the same value.
C13_TraverseKeepsShapeButSets ==
    \A i \in DOMAIN results :
        PlainTraverse(i) =>
          /\ ResolvedInput(i).t # "set" => SameShapeMapped(i)
          /\ ResolvedInput(i).t = "set" =>
                /\ SetOfImages(i)
                /\ (Len(Output(i).items) = Len(ResolvedInput(i).items))
                     = (\A j, k \in DOMAIN ResolvedInput(i).items :
                            j # k => Image(i, j) # Image(i, k))

\* { a: 1, b: 2 } traversed with x => x + 1 gives { a: 2, b: 3 }
C13_Witness ==
    \E i \in DOMAIN results :
        /\ PlainTraverse(i)
        /\ ResolvedInput(i) = Keyed("object", <<Num(1), Num(2)>>)
        /\ StageOf(i).fn = "inc"
        /\ results[i].out = Ret(Keyed("object", <<Num(2), Num(3)>>))

\* what an element resolves to: the value of a box built with of, what a
\* promise fulfils with, or the element itself
ResolvedElement(e) ==
    IF isFlowBox(e) THEN e.thunk.out.v ELSE IF isPromise(e) THEN e.pv ELSE e

\* the value an element of the output ends as, once its reactions have run
Ended(e) == IF isPromise(e) THEN e.pv ELSE e

\* no reaction is left to run, in the evaluation or among the elements of
\* its output
AllSettled(i) ==
    /\ OutputReady(i)
    /\ IsCollection(Output(i)) =>
          \A j \in DOMAIN Output(i).items :
              isPromise(Output(i).items[j].v) => Output(i).items[j].v.ks = <<>>

\* the resolved value of element j of the input of runner call i
InputElement(i, j) == ResolvedElement(ResolvedInput(i).items[j].v)

BadUnder(i, v) == isBadValue(v, SourceOf(i).config.badValues)

\* how many invocations of the stage's callback had the argument x, and how
\* many elements of the input resolve to x
TimesCalledWith(i, x) ==
    Cardinality({k \in DOMAIN CallsOf(i, StageOf(i).id) : CallsOf(i, StageOf(i).id)[k].arg = x})
TimesIn(i, x) ==
    Cardinality({j \in DOMAIN ResolvedInput(i).items : InputElement(i, j) = x})

\* what element j of the output must end as: the bad value itself, or what
\* fn gives for the good one
ExpectedElement(i, j) ==
    IF BadUnder(i, InputElement(i, j)) THEN InputElement(i, j)
    ELSE Ended(Call(StageOf(i).fn, InputElement(i, j)).v)

\* C14: traverse(fn) never invokes fn for an element whose resolved value
\* is bad and invokes it exactly once for every other element; the output
\* has every position of the input, the bad value where the element was bad
\* and fn's result elsewhere (a Set holds each of them as an element); when
\* the whole resolved value is bad, fn is never invoked and that value is
\* the result.
C14_TraverseSkipsBadElements ==
    \A i \in DOMAIN results :
        TraverseRun(i) =>
          /\ BadUnder(i, ResolvedInput(i)) =>
                /\ CallsOf(i, StageOf(i).id) = <<>>
                /\ OutputReady(i) => Output(i) = ResolvedInput(i)
          /\ IsCollection(ResolvedInput(i)) =>
                /\ \A j \in DOMAIN ResolvedInput(i).items :
                       /\ BadUnder(i, InputElement(i, j)) =>
                             TimesCalledWith(i, InputElement(i, j)) = 0
                       /\ TimesCalledWith(i, InputElement(i, j)) <= TimesIn(i, InputElement(i, j))
                       /\ (AllSettled(i) /\ ~BadUnder(i, InputElement(i, j))) =>
                             TimesCalledWith(i, InputElement(i, j)) = TimesIn(i, InputElement(i, j))
                /\ Len(CallsOf(i, StageOf(i).id)) <= Len(ResolvedInput(i).items)
                /\ AllSettled(i) =>
                      /\ IsCollection(Output(i)) /\ Output(i).t = ResolvedInput(i).t
                      /\ Output(i).t # "set" =>
                            /\ Len(Output(i).items) = Len(ResolvedInput(i).items)
                            /\ \A j \in DOMAIN ResolvedInput(i).items :
                                   /\ Output(i).items[j].k = ResolvedInput(i).items[j].k
                                   /\ Ended(Output(i).items[j].v) = ExpectedElement(i, j)
                      /\ Output(i).t = "set" =>
                            \A j \in DOMAIN ResolvedInput(i).items :
                                \E k \in DOMAIN Output(i).items :
                                    Ended(Output(i).items[k].v) = ExpectedElement(i, j)

\* a producer's promise fulfils with [Promise.resolve(null), 2]; traverse
\* with x => x + 1 has invoked the callback once, with 2, and the array has
\* ended as [null, 3]
C14_Witness ==
    \E i \in DOMAIN results :
        /\ TraverseRun(i) /\ AllSettled(i)
        /\ ResolvedInput(i) = Arr(<<Promise("ful", Null), Num(2)>>)
        /\ StageOf(i).fn = "inc"
        /\ CallsOf(i, StageOf(i).id) = <<Ev(StageOf(i).id, "traverse", Num(2))>>
        /\ Ended(Output(i).items[1].v) = Null /\ Output(i).items[2].v = Num(3)

---------------------------------------------------------------------------
(* distribute and sequence *)

DistributeElements == {Num(1), Null, Err(1)}

\* One chain over a collection: of(c) for a collection of plain values of
\* any kind, or for an array that holds a box; distribute and sequence
\* stages; one call of run on any of the boxes.
NextDistribute ==
    \/ \E c \in Collections(DistributeElements) : boxes = <<>> /\ of(c)
    \/ \E c \in {Arr(<<Num(1), InlineBox(Num(2), defaultConfig)>>),
                 Arr(<<InlineBox(Null, defaultConfig)>>)} : boxes = <<>> /\ of(c)
    \/ \E b \in DOMAIN boxes : Len(boxes) = 1 /\ withConfig(b, [badValues |-> <<Num(1)>>])
    \/ \E b \in DOMAIN boxes : distribute(b)
    \/ \E b \in DOMAIN boxes : sequence(b)
    \/ \E b \in DOMAIN boxes : results = <<>> /\ run(b)

SpecDistribute == Init /\ [][NextDistribute]_vars

\* the collection handed to of at the origin of the chain run by call i
OriginCollection(i) == OriginOf(StageOf(i)).out.v

\* neither a box nor a promise
Plain(v) == v.t \notin {"box", "promise"}

\* runner call i is run() on of(c).distribute()
DistributeRun(i) ==
    /\ results[i].runner = "run"
    /\ StageOf(i).op = "distribute"
    /\ SourceOf(i).thunk.op = "of"
    /\ IsCollection(OriginCollection(i))

\* runner call i is run() on of(c).distribute().sequence(), c a collection
\* of plain values
RoundTripRun(i) ==
    /\ results[i].runner = "run"
    /\ StageOf(i).op = "sequence"
    /\ SourceOf(i).thunk.op = "distribute"
    /\ boxes[SourceOf(i).thunk.src].thunk.op = "of"
    /\ IsCollection(OriginCollection(i))
    /\ \A j \in DOMAIN OriginCollection(i).items : Plain(OriginCollection(i).items[j].v)

\* a box of its own around v: of(v), nothing more
WrapsOnce(box, v) ==
    /\ isFlowBox(box)
    /\ box.thunk.op = "of" /\ box.thunk.out = Ret(v)

\* C15: for a collection c of plain values of any kind, the empty one
\* included, of(c).distribute().sequence().run() is a collection equal to c:
\* same kind, same keys, same elements; of(c).distribute().run() has a box
\* of its own around every element that is no box and the very box where
\* the element is one.
C15_DistributeSequenceRoundTrip ==
    \A i \in DOMAIN results :
        /\ RoundTripRun(i) => results[i].out = Ret(OriginCollection(i))
        /\ DistributeRun(i) =>
              /\ results[i].out.k = "ret"
              /\ IsCollection(results[i].out.v)
              /\ results[i].out.v.t = OriginCollection(i).t
              /\ Len(results[i].out.v.items) = Len(OriginCollection(i).items)
              /\ \A j \in DOMAIN OriginCollection(i).items :
                     LET e == OriginCollection(i).items[j].v
                         d == results[i].out.v.items[j].v
                     IN  /\ isFlowBox(e) => d = e
                         /\ ~isFlowBox(e) => WrapsOnce(d, e) /\ d.config = SourceOf(i).config

\* new Set([1, null]) distributed and sequenced is new Set([1, null])
C15_Witness ==
    \E i \in DOMAIN results :
        /\ RoundTripRun(i)
        /\ OriginCollection(i) = SetOf(<<Num(1), Null>>)
        /\ results[i].out = Ret(SetOf(<<Num(1), Null>>))

---------------------------------------------------------------------------
(* ap *)

ApValues == {FnValue("inc"), FnValue("isNaN"), Num(1), Null, NaN}
ApProducers ==
    {Ret(Promise("ful", FnValue("inc"))), Ret(Promise("ful", Num(1))),
     Ret(Promise("ful", Null)), Ret(Promise("ful", NaN))}
\* the arguments of ap that are no box built before: plain values and a
\* promise
ApArguments == {Num(1), Null, NaN, Promise("ful", Num(1)), Promise("ful", Null)}

\* Two boxes built by of or thunk, synchronous or pending, holding a
\* function or not; ap of one of them to a plain value, a promise or the
\* other box; an override of the rules; one call of run; the reactions of
\* the promise chain it started.
NextAp ==
    \/ \E v \in ApValues : Len(boxes) < 2 /\ of(v)
    \/ \E t \in ApProducers : Len(boxes) < 2 /\ thunk(t)
    \/ \E b \in DOMAIN boxes : Len(boxes) = 1 /\ withConfig(b, [badValues |-> <<Num(1)>>])
    \/ \E b \in DOMAIN boxes, fb \in ApArguments \cup {BoxRef(h) : h \in DOMAIN boxes} :
           /\ boxes[Len(boxes)].thunk.op # "ap"
           /\ ap(b, fb)
    \/ \E b \in DOMAIN boxes : results = <<>> /\ run(b)
    \/ \E i \in DOMAIN tasks : Settle(i)

SpecAp == Init /\ [][NextAp]_vars

\* what a constructor's box resolves to: its value, or what its promise
\* fulfils with
ResolvedOrigin(th) == IF isPromise(th.out.v) THEN th.out.v.pv ELSE th.out.v

\* what the argument of ap resolves to: the value of the box, what the
\* promise fulfils with, or the plain value
ResolvedArgument(fb) ==
    IF isFlowBox(fb) THEN ResolvedOrigin(boxes[fb.v].thunk)
    ELSE IF isPromise(fb) THEN fb.pv
    ELSE fb

\* runner call i is run() on an ap stage whose two operands are boxes built
\* by a constructor, plain values or promises
ApRun(i) ==
    /\ results[i].runner = "run"
    /\ StageOf(i).op = "ap"
    /\ SourceOf(i).thunk.op \in {"of", "thunk"}
    /\ isFlowBox(StageOf(i).fb) => boxes[StageOf(i).fb.v].thunk.op \in {"of", "thunk"}

\* the evaluation has ended with a value: returned, or the fulfilment of the
\* promise returned
EndedWith(i, v) ==
    /\ OutputReady(i)
    /\ isPromise(results[i].out.v) => tasks[i].st = "ful"
    /\ Output(i) = v

---------------------------------------------------------------------------
(* collect *)

CollectProducers == {Ret(Num(1)), Throw(Err(1)), Ret(Promise("ful", Num(1)))}

\* A producer, a map stage over it, collect of either, a map stage chained
\* after, runs of any of the boxes in any number and order, and the
\* reactions of the promise chains they started.
NextCollect ==
    \/ \E t \in CollectProducers : boxes = <<>> /\ thunk(t)
    \/ \E b \in DOMAIN boxes, fn \in {"inc", "asyncInc"} : map(b, fn)
    \/ \E b \in DOMAIN boxes : (\A k \in DOMAIN results : results[k].runner # "collect")
                               /\ collect(b)
    \/ \E b \in DOMAIN boxes : run(b)
    \/ \E i \in DOMAIN tasks : Settle(i)

SpecCollect == Init /\ [][NextCollect]_vars

\* the chain of the thunk passes through box c
RECURSIVE Through(_, _)
Through(th, c) ==
    \/ th.id = c
    \/ th.op \notin {"of", "thunk"} /\ Through(boxes[th.src].thunk, c)

\* runner call k is a collect, and Collected(k) the box it returned
IsCollect(k) == results[k].runner = "collect"
Collected(k) == results[k].out.v.v

\* the calls of the producer at the origin made by runner call i
ProducerCalls(i) == SelectSeq(calls[i], LAMBDA e : e.site \in {"of", "thunk"})

\* collect has called the upstream producer once and each upstream callback
\* at most once, and nothing of what is built on the box it returned
CollectEvaluatesOnce(k) ==
    /\ Len(ProducerCalls(k)) = 1
    /\ \A id \in DOMAIN boxes : Len(CallsOf(k, id)) <= 1
    /\ \A j \in DOMAIN calls[k] : calls[k][j].id < Collected(k)

\* a run of the box collect returned, or of a chain built on it, calls
\* nothing upstream of collect
RunsInvokeNothingUpstream(k) ==
    \A i \in DOMAIN results :
        (results[i].runner = "run" /\ Through(StageOf(i), Collected(k))) =>
          \A j \in DOMAIN calls[i] : calls[i][j].id >= Collected(k)

\* the constant the box returned by collect(b) holds: the value, the error
\* thrown, or the promise, told by how it settles
HoldsResultOf(held, up) ==
    IF up.k = "ret" /\ isPromise(up.v)
    THEN /\ isPromise(held)
         /\ FinalOf(held).st = FinalOf(up.v).st /\ FinalOf(held).pv = FinalOf(up.v).pv
    ELSE held = up.v

\* collect(b) returns a new box with b's configuration around the constant
CollectBuildsConstant ==
    \A b \in DOMAIN boxes :
        collect(b) =>
          /\ Built.config = boxes[b].config
          /\ Built.thunk.op = "of" /\ Built.thunk.out.k = "ret"
          /\ HoldsResultOf(Built.thunk.out.v, Upstream([src |-> b]))

\* a step that builds a box and is no runner invokes nothing
BuildingInvokesNothing ==
    (boxes' # boxes /\ Len(results') = Len(results)) => calls' = calls

\* C17: collect() evaluates the upstream chain once, when it is called, and
\* returns a new box with the same configuration that holds the result, or
\* the error thrown, as a constant; runs of that box or of chains built on
\* it, however many, invoke neither the upstream producer nor an upstream
\* callback; building a stage after collect invokes nothing.
C17_CollectEvaluatesOnce ==
    /\ [](\A k \in DOMAIN results :
              IsCollect(k) => CollectEvaluatesOnce(k) /\ RunsInvokeNothingUpstream(k))
    /\ [][CollectBuildsConstant /\ BuildingInvokesNothing]_vars

\* thunk(() => 1).map(x => x + 1).collect().map(x => x + 1) run twice: each
\* run gives 3 and invokes only the stage after collect
C17_Witness ==
    /\ Len(results) = 3 /\ Len(boxes) = 4
    /\ IsCollect(1) /\ results[1].box = 2 /\ Collected(1) = 3
    /\ boxes[3].thunk.out = Ret(Num(2))
    /\ calls[1] = <<Ev(1, "thunk", Undefined), Ev(2, "map", Num(1))>>
    /\ \A i \in {2, 3} :
           /\ results[i].runner = "run" /\ results[i].box = 4
           /\ results[i].out = Ret(Num(3))
           /\ calls[i] = <<Ev(3, "of", Undefined), Ev(4, "map", Num(2))>>

---------------------------------------------------------------------------
(* flat *)

FlatValues == {Num(1), Null}

\* Boxes built by of around a value or around a box built before, or by
\* thunk around a producer whose promise fulfils with one of those; flat of
\* any of them; one call of run; the reactions of the promise chain it
\* started.
NextFlat ==
    \/ \E v \in FlatValues \cup {BoxRef(h) : h \in DOMAIN boxes} : of(v)
    \/ \E v \in FlatValues \cup {BoxRef(h) : h \in DOMAIN boxes} :
           thunk(Ret(Promise("ful", v)))
    \/ \E b \in DOMAIN boxes : flat(b)
    \/ \E b \in DOMAIN boxes : results = <<>> /\ run(b)
    \/ \E i \in DOMAIN tasks : Settle(i)

SpecFlat == Init /\ [][NextFlat]_vars

\* runner call i is run() on a flat stage built on the box of a constructor
FlatRun(i) ==
    /\ results[i].runner = "run"
    /\ StageOf(i).op = "flat"
    /\ SourceOf(i).thunk.op \in {"of", "thunk"}

\* the box is of(w) for a value w that is no promise
HoldsPlainly(h) == boxes[h].thunk.op = "of" /\ ~isPromise(boxes[h].thunk.out.v)

\* C18: flat() takes away one box: over a box that resolves, at once or as
\* the fulfilment of its promise, to the box of(w), run() yields w, which is
\* itself a box when the nesting was double; over a box that resolves to a
\* value w that is no box, run() yields w.
C18_FlatRemovesOneLevel ==
    \A i \in DOMAIN results :
        (FlatRun(i) /\ OutputReady(i)) =>
          LET o == ResolvedOrigin(SourceOf(i).thunk) IN
          /\ (isFlowBox(o) /\ HoldsPlainly(o.v)) => EndedWith(i, boxes[o.v].thunk.out.v)
          /\ ~isFlowBox(o) => EndedWith(i, o)

\* a producer's promise fulfils with of(of(1)); flat() of it run: the
\* promise fulfils with the box of(1)
C18_Witness ==
    \E i \in DOMAIN results :
        /\ FlatRun(i) /\ OutputReady(i)
        /\ SourceOf(i).thunk.out = Ret(Promise("ful", BoxRef(2)))
        /\ boxes[2].thunk.out = Ret(BoxRef(1)) /\ boxes[1].thunk.out = Ret(Num(1))
        /\ isPromise(results[i].out.v) /\ tasks[i].st = "ful" /\ tasks[i].pv = BoxRef(1)

---------------------------------------------------------------------------
(* flatMap *)

FlatMapValues == {Num(1), Null, NaN}
FlatMapProducers == {Ret(Promise("ful", Num(1))), Ret(Promise("ful", Null))}
FlatMapFns == {"inc", "toNull", "asyncInc", "boxInc", "boxBoxInc", "asyncBoxInc"}

\* One box built by of or thunk, an override of the rules, flatMap with a
\* callback that returns a value, a promise, a box, a box in a box or a
\* promise of a box, one call of run, and the reactions of the promise
\* chain it started.
NextFlatMap ==
    \/ \E v \in FlatMapValues : boxes = <<>> /\ of(v)
    \/ \E t \in FlatMapProducers : boxes = <<>> /\ thunk(t)
    \/ \E b \in DOMAIN boxes : Len(boxes) = 1 /\ withConfig(b, [badValues |-> <<Num(1)>>])
    \/ \E b \in DOMAIN boxes, fn \in FlatMapFns :
           boxes[Len(boxes)].thunk.op # "flatMap" /\ flatMap(b, fn)
    \/ \E b \in DOMAIN boxes : results = <<>> /\ run(b)
    \/ \E i \in DOMAIN tasks : Settle(i)

SpecFlatMap == Init /\ [][NextFlatMap]_vars

\* runner call i is run() on a stage `op` built on the box of a constructor
StageRun(i, op) ==
    /\ results[i].runner = "run"
    /\ StageOf(i).op = op
    /\ SourceOf(i).thunk.op \in {"of", "thunk"}

\* what a box built with of on the spot holds
Inside(box) == box.thunk.out.v

\* C19: flatMap(fn) over a box that resolves, at once or as the fulfilment
\* of its promise, to a non-bad v invokes fn once, with v; when what fn
\* returns, or the fulfilment of the promise it returns, is a box, run()
\* yields what that box holds (a box, if it holds one), and otherwise yields
\* it unchanged; over a bad v, fn is not invoked and v is the result.
C19_FlatMapUnwrapsOneLevel ==
    \A i \in DOMAIN results :
        StageRun(i, "flatMap") =>
          LET v == ResolvedOrigin(SourceOf(i).thunk)
              id == StageOf(i).id
              w == Ended(Call(StageOf(i).fn, v).v)
          IN  /\ BadUnder(i, v) =>
                    /\ CallsOf(i, id) = <<>>
                    /\ OutputReady(i) => EndedWith(i, v)
              /\ ~BadUnder(i, v) =>
                    /\ CallsOf(i, id) \in {<<>>, <<Ev(id, "flatMap", v)>>}
                    /\ OutputReady(i) =>
                          /\ CallsOf(i, id) = <<Ev(id, "flatMap", v)>>
                          /\ EndedWith(i, IF isFlowBox(w) THEN Inside(w) ELSE w)

\* of(1).flatMap(x => FlowBox.of(FlowBox.of(x + 1))).run() is the box of(2)
C19_Witness ==
    \E i \in DOMAIN results :
        /\ StageRun(i, "flatMap")
        /\ SourceOf(i).thunk.out = Ret(Num(1)) /\ SourceOf(i).config = defaultConfig
        /\ StageOf(i).fn = "boxBoxInc"
        /\ results[i].out = Ret(InlineBox(Num(2), defaultConfig))
        /\ CallsOf(i, StageOf(i).id) = <<Ev(StageOf(i).id, "flatMap", Num(1))>>

---------------------------------------------------------------------------
(* filter *)

FilterValues == {Num(1), Num(2), Null, NaN}
FilterProducers ==
    {Ret(Promise("ful", Num(1))), Ret(Promise("ful", Num(2))), Ret(Promise("ful", Null))}
\* predicates that answer with a boolean, a promise of one, a number or null
FilterPredicates == {"isOne", "asyncIsOne", "inc", "toNull"}

\* One box built by of or thunk, an override of the rules, filter with a
\* predicate, one call of run, and the reactions of the promise chain it
\* started.
NextFilter ==
    \/ \E v \in FilterValues : boxes = <<>> /\ of(v)
    \/ \E t \in FilterProducers : boxes = <<>> /\ thunk(t)
    \/ \E b \in DOMAIN boxes : Len(boxes) = 1 /\ withConfig(b, [badValues |-> <<Num(1)>>])
    \/ \E b \in DOMAIN boxes, p \in FilterPredicates :
           boxes[Len(boxes)].thunk.op # "filter" /\ filter(b, p)
    \/ \E b \in DOMAIN boxes : results = <<>> /\ run(b)
    \/ \E i \in DOMAIN tasks : Settle(i)

SpecFilter == Init /\ [][NextFilter]_vars

\* C20: filter(p) over a box that resolves, at once or as the fulfilment of
\* its promise, to a non-bad v invokes p with v and yields v when p's
\* answer, or the fulfilment of the promise p returns, is truthy, and null
\* otherwise; over a bad v, p is not invoked and v is the result.
C20_FilterKeepsOrNulls ==
    \A i \in DOMAIN results :
        StageRun(i, "filter") =>
          LET v == ResolvedOrigin(SourceOf(i).thunk)
              id == StageOf(i).id
              answer == Ended(Call(StageOf(i).fn, v).v)
          IN  /\ BadUnder(i, v) =>
                    /\ CallsOf(i, id) = <<>>
                    /\ OutputReady(i) => EndedWith(i, v)
              /\ ~BadUnder(i, v) =>
                    /\ CallsOf(i, id) \in {<<>>, <<Ev(id, "filter", v)>>}
                    /\ OutputReady(i) =>
                          /\ CallsOf(i, id) = <<Ev(id, "filter", v)>>
                          /\ EndedWith(i, IF Truthy(answer) THEN v ELSE Null)

\* of(2).filter(async x => x === 1).run() is a promise that fulfils with
\* null
C20_Witness ==
    \E i \in DOMAIN results :
        /\ StageRun(i, "filter") /\ OutputReady(i)
        /\ SourceOf(i).thunk.out = Ret(Num(2))
        /\ StageOf(i).fn = "asyncIsOne"
        /\ isPromise(results[i].out.v) /\ tasks[i].st = "ful" /\ tasks[i].pv = Null
        /\ CallsOf(i, StageOf(i).id) = <<Ev(StageOf(i).id, "filter", Num(2))>>

---------------------------------------------------------------------------
(* FlowBox.resolve called by a user with three continuations of their own  *)

\* what resolve is handed as val: plain values and promises that fulfil or
\* reject
ResolveValues ==
    {Num(1), Null, Err(1), Promise("ful", Num(1)), Promise("ful", Null),
     Promise("ful", Err(1)), Promise("rej", Err(1)), Promise("rej", Str(1))}

\* the rule lists behind the isBadValue it is handed
ResolveRules == {defaultConfig.badValues, <<Num(1)>>, <<>>}

ResolveArgs == [onOk : {"ret", "throw"}, onError : {"ret", "throw"}, onBad : {"ret", "throw"}]

\* the call returns or throws r.out, having been handed args
resolveOf(args, r) == Returns("resolve", 0, args, r.out, r.log)

\* FlowBox.resolve(val, onOk, (v) => FlowBox.isBadValue(v, badValues),
\* onError, onBad)
resolveCall(val, args, badValues) ==
    /\ Len(results) < MaxRuns
    /\ resolveOf([val |-> val, badValues |-> badValues] @@ args,
                 staticResolve(val, args, badValues, <<>>))
    /\ UNCHANGED boxes

\* One call of FlowBox.resolve with a value, a rule list and three
\* continuations, and the reaction of the promise it returns.
NextResolve ==
    \/ \E val \in ResolveValues, args \in ResolveArgs, badValues \in ResolveRules :
           results = <<>> /\ resolveCall(val, args, badValues)
    \/ \E i \in DOMAIN tasks : Settle(i)

SpecResolve == Init /\ [][NextResolve]_vars

\* call i is a call of resolve whose val is a promise
PendingResolve(i) ==
    /\ results[i].runner = "resolve"
    /\ isPromise(results[i].args.val)

\* what a continuation that was invoked makes of the returned promise: its
\* return value fulfils it, what it throws rejects it
SettledBy(i, name) ==
    IF results[i].args[name] = "ret"
    THEN tasks[i].st = "ful" /\ tasks[i].pv = [t |-> "string", v |-> 10, by |-> name]
    ELSE tasks[i].st = "rej" /\ tasks[i].pv = Err(5)

\* the one continuation call i has invoked, with the argument x
InvokedOnly(i, name, x) ==
    /\ calls[i] = <<Ev(0, name, x)>>
    /\ SettledBy(i, name)

\* resolve returns a promise at once, having invoked nothing
ReturnsPendingAtOnce(i) ==
    /\ results[i].out.k = "ret"
    /\ isPromise(results[i].out.v)
    /\ results[i].out.v.ks # <<>>
    /\ tasks[i].ks # <<>> => calls[i] = <<>>

\* at a fulfilment, onBad or onOk alone is invoked with it
FulfilmentDispatched(i) ==
    (tasks[i].ks = <<>> /\ results[i].args.val.st = "ful") =>
        IF isBadValue(results[i].args.val.pv, results[i].args.badValues)
        THEN InvokedOnly(i, "onBad", results[i].args.val.pv)
        ELSE InvokedOnly(i, "onOk", results[i].args.val.pv)

\* C21 (as claimed): when the raw value is a pending result, resolve returns
\* a new pending result at once and at settlement invokes exactly one
\* continuation: onError with the rejection reason if it rejects, its return
\* value fulfilling the returned pending result; onBad if it fulfils with a
\* value the classifier marks bad; onSuccess otherwise.
C21_PendingInvokesOneContinuation ==
    \A i \in DOMAIN results :
        PendingResolve(i) =>
            /\ ReturnsPendingAtOnce(i)
            /\ FulfilmentDispatched(i)
            /\ (tasks[i].ks = <<>> /\ results[i].args.val.st = "rej") =>
                   InvokedOnly(i, "onError", results[i].args.val.pv)

\* C21 (amended): when the raw value is a pending result, resolve returns a
\* new pending result at once; at a fulfilment it invokes exactly one
\* continuation, onBad if the classifier marks the value bad and onSuccess
\* otherwise, whose outcome settles the returned pending result; at a
\* rejection it invokes no continuation and the returned pending result
\* rejects with the same reason.
C21_PendingInvokesOneContinuationUnlessRejected ==
    \A i \in DOMAIN results :
        PendingResolve(i) =>
            /\ ReturnsPendingAtOnce(i)
            /\ FulfilmentDispatched(i)
            /\ (tasks[i].ks = <<>> /\ results[i].args.val.st = "rej") =>
                   /\ calls[i] = <<>>
                   /\ tasks[i].st = "rej"
                   /\ tasks[i].pv = results[i].args.val.pv

\* a promise that rejects has been handed to resolve with an onError that
\* returns, and the promise resolve returned has settled
C21_Witness ==
    \E i \in DOMAIN results :
        /\ PendingResolve(i)
        /\ results[i].args.val.st = "rej"
        /\ results[i].args.onError = "ret"
        /\ tasks[i].ks = <<>>

---------------------------------------------------------------------------
(* Callbacks that throw, followed by more stages *)

ThrowingFns == {"throwString", "throwError"}

\* onError, onNothing and onOk that return, with and without onFinally
ReturningFoldArgs ==
    {[onError |-> "ret", onNothing |-> "ret", onOk |-> "ret", onFinally |-> f] :
        f \in {"none", "ret"}}

\* One pipeline under the default rules: a box of 1 or of a promise of 1,
\* stages of map, filter and flatMap whose callbacks throw a string or an
\* Error, map stages after them, and one call of run or fold.
NextThrown ==
    \/ boxes = <<>> /\ of(Num(1))
    \/ boxes = <<>> /\ thunk(Ret(Promise("ful", Num(1))))
    \/ \E b \in DOMAIN boxes, fn \in ThrowingFns \cup {"inc"} :
           Len(boxes) < MaxChain /\ map(b, fn)
    \/ \E b \in DOMAIN boxes, fn \in ThrowingFns : Len(boxes) < MaxChain /\ filter(b, fn)
    \/ \E b \in DOMAIN boxes, fn \in ThrowingFns : Len(boxes) < MaxChain /\ flatMap(b, fn)
    \/ \E b \in DOMAIN boxes : results = <<>> /\ run(b)
    \/ \E b \in DOMAIN boxes, args \in ReturningFoldArgs : results = <<>> /\ fold(b, args)
    \/ \E i \in DOMAIN tasks : Settle(i)

SpecThrown == Init /\ [][NextThrown]_vars

\* invocation j of runner call i is a callback of map, filter or flatMap
\* that threw
ThrewAt(i, j) ==
    /\ calls[i][j].site \in {"map", "filter", "flatMap"}
    /\ Call(FnOf(calls[i][j].id), calls[i][j].arg).k = "throw"

ThrownAt(i, j) == Call(FnOf(calls[i][j].id), calls[i][j].arg).v

\* C22: every value thrown synchronously by a callback of map, filter or
\* flatMap, an Error instance or not, is an error for the following stages:
\* no map callback is invoked after the throw, and a terminal fold invokes
\* onError, and not onSuccess, with the thrown value.
C22_ThrownValueIsAnError ==
    \A i \in DOMAIN results :
        \A j \in DOMAIN calls[i] :
            ThrewAt(i, j) =>
                /\ \A k \in DOMAIN calls[i] : k > j => calls[i][k].site # "map"
                /\ (results[i].runner = "fold" /\ Settled(i)) =>
                       BranchCalls(i) = <<Ev(0, "onError", ThrownAt(i, j))>>

---------------------------------------------------------------------------
(* fold with callbacks that throw *)

\* the fold of runner call i has come to its end: it has returned or thrown,
\* or the promise it returned has settled
FoldEnded(i) ==
    LET e == Value(results[i].box, <<>>).out IN
    ~(e.k = "ret" /\ isPromise(e.v)) \/ Settled(i)

\* C23: fold invokes exactly one of onError, onNothing, onOk exactly once
\* also when the invoked callback throws, on the synchronous path and inside
\* the continuation of a promise: a throw of onOk or onNothing does not get
\* onError invoked as well, and a throw of onError does not get onError
\* invoked a second time.
C23_FoldOneBranchThoughItThrows ==
    \A i \in DOMAIN results :
        results[i].runner = "fold" =>
            /\ Len(BranchCalls(i)) <= 1
            /\ FoldEnded(i) => Len(BranchCalls(i)) = 1

---------------------------------------------------------------------------
(* Error values under rule lists with and without the error predicate *)

ErrorValues == {Err(1), Num(1)}
ErrorProducers == {Ret(Promise("ful", Err(1)))}

\* rule lists that leave out isError, and one that consists of it
ErrorRules == {[badValues |-> <<Null>>], [badValues |-> <<isErrorFn>>]}

\* One pipeline: the process-wide rules redefined as [null] or restored, a
\* box of an Error or of 1 or of a promise of an Error, map stages and
\* per-box rule lists, one call of run.
NextErrors ==
    \/ boxes = <<>> /\ defineConfig([badValues |-> <<Null>>])
    \/ boxes = <<>> /\ restoreDefaultsStatic
    \/ \E v \in ErrorValues : boxes = <<>> /\ of(v)
    \/ \E t \in ErrorProducers : boxes = <<>> /\ thunk(t)
    \/ \E b \in DOMAIN boxes, fn \in {"inc", "toError"} : Len(boxes) < MaxChain /\ map(b, fn)
    \/ \E b \in DOMAIN boxes, c \in ErrorRules : Len(boxes) < MaxChain /\ withConfig(b, c)
    \/ \E b \in DOMAIN boxes : Len(boxes) < MaxChain /\ restoreDefaults(b)
    \/ \E b \in DOMAIN boxes : results = <<>> /\ run(b)
    \/ \E i \in DOMAIN tasks : Settle(i)

SpecErrors == Init /\ [][NextErrors]_vars

\* runner call i is a run of a map stage whose resolved input is an Error
\* instance, and it has come to its end
MapOverError(i) ==
    LET th == boxes[results[i].box].thunk IN
    /\ results[i].runner = "run"
    /\ th.op = "map"
    /\ Classified(th).known
    /\ isError(Classified(th).v)
    /\ Classified(th).sync \/ Settled(i)

\* the callback was not invoked and the result is the Error itself
ErrorSkipped(i) ==
    LET th == boxes[results[i].box].thunk IN
    /\ CallsOf(i, th.id) = <<>>
    /\ EndedWith(i, Classified(th).v)

\* the callback was invoked once, with the Error, and the result is what it
\* returned
ErrorMapped(i) ==
    LET th == boxes[results[i].box].thunk IN
    /\ CallsOf(i, th.id) = <<Ev(th.id, "map", Classified(th).v)>>
    /\ EndedWith(i, Call(th.fn, Classified(th).v).v)

\* C24 (as claimed): under every configuration, a rule list without the
\* error predicate included, map never invokes its callback when the
\* resolved value is an Error instance, and the Error goes unchanged to the
\* next stage.
C24_MapNeverCalledWithError ==
    \A i \in DOMAIN results : MapOverError(i) => ErrorSkipped(i)

\* C24 (amended): when the resolved value is an Error instance, map does not
\* invoke its callback and hands the Error on unchanged exactly when the
\* rules of the stage's box mark it bad, as the default rules do; under a
\* per-box or process-wide rule list that does not match it, map invokes
\* its callback once with the Error and the result is what the callback
\* returns.
C24_MapSkipsErrorWhenRulesMarkIt ==
    \A i \in DOMAIN results :
        MapOverError(i) =>
            IF isBadValue(Classified(boxes[results[i].box].thunk).v,
                          boxes[boxes[results[i].box].thunk.id].config.badValues)
            THEN ErrorSkipped(i)
            ELSE ErrorMapped(i)

\* of(new Error()).withConfig({ badValues: [null] }).map(x => x + 1).run()
\* has invoked the callback with the Error
C24_Witness ==
    \E i \in DOMAIN results :
        /\ MapOverError(i)
        /\ boxes[results[i].box].config = [badValues |-> <<Null>>]
        /\ staticDefaultConfig = defaultConfig
        /\ boxes[1].config = defaultConfig
        /\ ErrorMapped(i)

---------------------------------------------------------------------------
(* Traversals whose elements settle in any order *)

\* elements that are there at once, elements that are pending (a promise,
\* or a box of one) and fulfil or reject
OrderElements ==
    {Num(1), Num(2), Promise("ful", Num(3)), Promise("rej", Err(1)),
     InlineBox(Promise("ful", Num(4)), defaultConfig)}

OrderCollections ==
    {Arr(vals) : vals \in SeqsUpTo(OrderElements, MaxLen)}
    \cup {Keyed("map", vals) : vals \in SeqsUpTo(OrderElements, MaxLen)}
    \cup {Keyed("object", vals) : vals \in SeqsUpTo(OrderElements, MaxLen)}

\* One traversal of an array, a Map or a record with a callback that returns
\* a value or a promise, one call of run, and the reactions of the pending
\* elements of its result, in any order.
NextOrder ==
    \/ \E c \in OrderCollections : boxes = <<>> /\ of(c)
    \/ \E b \in DOMAIN boxes, fn \in {"inc", "asyncInc"} : Len(boxes) = 1 /\ traverse(b, fn)
    \/ \E b \in DOMAIN boxes : results = <<>> /\ run(b)
    \/ \E i \in DOMAIN tasks, j \in 1..MaxLen : SettleElement(i, j)

SpecOrder == Init /\ [][NextOrder]_vars

\* how an element of the input settles: at once, or as the promise it is or
\* it holds does
Settling(e) ==
    LET u == IF isFlowBox(e) THEN e.thunk.out.v ELSE e IN
    IF isPromise(u) THEN [pending |-> TRUE, st |-> u.st, pv |-> u.pv]
    ELSE [pending |-> FALSE, st |-> "ful", pv |-> u]

\* element j of the input of runner call i, and of what the call has
\* produced, as it is now
InAt(i, j) == ResolvedInput(i).items[j]
OutAt(i, j) == tasks[i].pv.items[j]

\* what fn gives for element j, were it invoked with what the element
\* settles as
FnAt(i, j) == Call(StageOf(i).fn, Settling(InAt(i, j).v).pv).v

\* the output holds at j's key what derives from the input's element j: a
\* pending result if the element or fn's result for it is pending, and once
\* that has settled, fn's result for the element, or the reason of the
\* element's rejection
PositionStable(i, j) ==
    LET s == Settling(InAt(i, j).v) IN
    /\ OutAt(i, j).k = InAt(i, j).k
    /\ isPromise(OutAt(i, j).v) = (s.pending \/ isPromise(FnAt(i, j)))
    /\ (isPromise(OutAt(i, j).v) => OutAt(i, j).v.ks = <<>>) =>
           IF s.st = "rej"
           THEN OutAt(i, j).v.st = "rej" /\ OutAt(i, j).v.pv = s.pv
           ELSE /\ Ended(OutAt(i, j).v) = Ended(FnAt(i, j))
                /\ isPromise(OutAt(i, j).v) => OutAt(i, j).v.st = "ful"

\* the arguments fn has been invoked with by runner call i, in order
TraverseArgs(i) ==
    [k \in DOMAIN CallsOf(i, StageOf(i).id) |-> CallsOf(i, StageOf(i).id)[k].arg]

\* the elements of the input that are there at once, in the input's order
SyncElements(i) ==
    LET now == SelectSeq(ResolvedInput(i).items, LAMBDA e : ~Settling(e.v).pending) IN
    [k \in DOMAIN now |-> now[k].v]

\* C25: in a traverse over a collection whose elements or callback results
\* are pending and settle in any order, each position or key of the output
\* holds the (pending) result derived from the input element at the same
\* position or key, whatever the order of completion; for the elements that
\* are there at once fn is invoked in the order of the collection.
C25_TraversePositionStable ==
    \A i \in DOMAIN results :
        (results[i].runner = "run" /\ StageOf(i).op = "traverse") =>
            /\ IsCollection(tasks[i].pv) /\ tasks[i].pv.t = ResolvedInput(i).t
            /\ Len(tasks[i].pv.items) = Len(ResolvedInput(i).items)
            /\ \A j \in DOMAIN ResolvedInput(i).items : PositionStable(i, j)
            /\ Len(TraverseArgs(i)) >= Len(SyncElements(i))
            /\ SubSeq(TraverseArgs(i), 1, Len(SyncElements(i))) = SyncElements(i)

\* [FlowBox.of(Promise.resolve(4)), Promise.resolve(3)] traversed with
\* x => x + 1: the second element has settled before the first, as 4 at the
\* second position
C25_Witness ==
    \E i \in DOMAIN results :
        /\ results[i].runner = "run" /\ StageOf(i).op = "traverse"
        /\ ResolvedInput(i) = Arr(<<InlineBox(Promise("ful", Num(4)), defaultConfig),
                                    Promise("ful", Num(3))>>)
        /\ StageOf(i).fn = "inc"
        /\ OutAt(i, 1).v.ks # <<>>
        /\ OutAt(i, 2).v.ks = <<>>
        /\ OutAt(i, 2).v.pv = Num(4)

---------------------------------------------------------------------------
(* Traversals with a callback that throws for some elements *)

FailingElements == {Num(1), Num(2)}
FailingPendingElements == {Promise("ful", Num(1)), Promise("ful", Num(2))}
FailingFns == {"throwOnTwo", "throwString"}

\* One traversal of a collection of any kind over 1 and 2, or of an array
\* with pending elements, with a callback that throws for 2 or for every
\* element; one call of run; the reactions of the pending elements.
NextFailing ==
    \/ \E c \in Collections(FailingElements) : boxes = <<>> /\ of(c)
    \/ \E c \in {Arr(vals) : vals \in SeqsUpTo(FailingElements \cup FailingPendingElements,
                                               MaxLen)} :
           boxes = <<>> /\ of(c)
    \/ \E b \in DOMAIN boxes, fn \in FailingFns : Len(boxes) = 1 /\ traverse(b, fn)
    \/ \E b \in DOMAIN boxes : results = <<>> /\ run(b)
    \/ \E i \in DOMAIN tasks, j \in 1..MaxLen : SettleElement(i, j)

SpecFailing == Init /\ [][NextFailing]_vars

\* how fn ends for element j of the input of runner call i
FnEnds(i, j) == Call(StageOf(i).fn, Settling(InAt(i, j).v).pv)

\* what stands for element j in the output: the value fn returned or threw
\* for an element that was there at once; for a pending element a pending
\* result that fulfils with what fn returned or rejects with what it threw
StandsFor(i, j, out) ==
    IF ~Settling(InAt(i, j).v).pending THEN out = FnEnds(i, j).v
    ELSE /\ isPromise(out)
         /\ out.ks = <<>> =>
                /\ out.st = (IF FnEnds(i, j).k = "throw" THEN "rej" ELSE "ful")
                /\ out.pv = FnEnds(i, j).v

\* no pending element of what runner call i has produced has a reaction left
ElementsSettled(i) ==
    \A j \in DOMAIN tasks[i].pv.items :
        isPromise(tasks[i].pv.items[j].v) => tasks[i].pv.items[j].v.ks = <<>>

\* C26: when fn throws for one element of a traverse, what it threw becomes
\* the value at that element's position, the other elements are still
\* processed and keep their own results, and the result is still a
\* collection of the kind and keys of the input, not the single error.
C26_TraverseKeepsGoingAfterAThrow ==
    \A i \in DOMAIN results :
        (results[i].runner = "run" /\ StageOf(i).op = "traverse") =>
            /\ results[i].out.k = "ret"
            /\ IsCollection(tasks[i].pv) /\ tasks[i].pv.t = ResolvedInput(i).t
            /\ ElementsSettled(i) =>
                   Len(CallsOf(i, StageOf(i).id)) = Len(ResolvedInput(i).items)
            /\ \A j \in DOMAIN ResolvedInput(i).items :
                   IF ResolvedInput(i).t = "set"
                   THEN \E k \in DOMAIN tasks[i].pv.items :
                            StandsFor(i, j, tasks[i].pv.items[k].v)
                   ELSE /\ Len(tasks[i].pv.items) = Len(ResolvedInput(i).items)
                        /\ OutAt(i, j).k = InAt(i, j).k
                        /\ StandsFor(i, j, OutAt(i, j).v)

\* [2, 1] traversed with a callback that throws for 2: the Error at the
\* first position, 2 at the second
C26_Witness ==
    \E i \in DOMAIN results :
        /\ results[i].runner = "run" /\ StageOf(i).op = "traverse"
        /\ StageOf(i).fn = "throwOnTwo"
        /\ ResolvedInput(i) = Arr(<<Num(2), Num(1)>>)
        /\ tasks[i].pv = Arr(<<Err(3), Num(2)>>)

---------------------------------------------------------------------------
(* The process-wide default redefined while boxes exist and evaluations are *)
(* in flight                                                               *)

DefineValues == {Num(1), Null}
DefineProducers == {Ret(Promise("ful", Num(1))), Ret(Promise("ful", Null))}
DefineConfigs == {[badValues |-> <<Num(1)>>], [badValues |-> <<Null>>]}

\* Boxes built by of and thunk without a configuration of their own, map
\* and filter stages on them, one call of run and its reactions, with
\* defineConfig and the static restoreDefaults at any moment in between.
NextDefine ==
    \/ \E c \in DefineConfigs : defineConfig(c)
    \/ restoreDefaultsStatic
    \/ \E v \in DefineValues : Len(boxes) < MaxChain /\ of(v)
    \/ \E t \in DefineProducers : Len(boxes) < MaxChain /\ thunk(t)
    \/ \E b \in DOMAIN boxes : Len(boxes) < MaxChain /\ map(b, "inc")
    \/ \E b \in DOMAIN boxes : Len(boxes) < MaxChain /\ filter(b, "isOne")
    \/ \E b \in DOMAIN boxes : results = <<>> /\ run(b)
    \/ \E i \in DOMAIN tasks : Settle(i)

SpecDefine == Init /\ [][NextDefine]_vars

\* a change of the process-wide default leaves every box with the
\* configuration it has
DefineKeepsBoxes == staticDefaultConfig' # staticDefaultConfig => boxes' = boxes

\* a box a combinator derived has the configuration of the box it was
\* derived from
DerivedKeepConfig ==
    \A h \in DOMAIN boxes :
        Derived(h) => boxes[h].config = boxes[boxes[h].thunk.src].config

\* a stage classifies with the configuration of its box, whatever the
\* process-wide default is when the value arrives
ClassifiesAsConstructed ==
    \A i \in DOMAIN results :
        LET th == boxes[results[i].box].thunk IN
        (Classifies(th) /\ Classified(th).known /\ (Classified(th).sync \/ Settled(i))) =>
            (CallsOf(i, th.id) = <<>>)
                = isBadValue(Classified(th).v, boxes[results[i].box].config.badValues)

\* a box constructed by of or thunk without a configuration (not the copy
\* withConfig makes, nor the box collect returns) has the default of the
\* moment
ConstructedWithCurrentDefault ==
    ( /\ Len(boxes') > Len(boxes)
      /\ Built.thunk.op \in {"of", "thunk"}
      /\ Built.thunk.id = Len(boxes')
      /\ results' = results ) =>
        Built.config = staticDefaultConfig

\* C27: defineConfig installs a new configuration and leaves the one it
\* replaces as it was: a box constructed before the call, the boxes derived
\* from it and an evaluation of it that is in flight (a stage registered on
\* a pending value before the call and settling after it) keep classifying
\* with the configuration the box was constructed with; only boxes
\* constructed afterwards without a configuration use the new default.
C27_DefineConfigLeavesBoxesAlone ==
    /\ [](DerivedKeepConfig /\ ClassifiesAsConstructed)
    /\ [][DefineKeepsBoxes /\ ConstructedWithCurrentDefault]_vars

\* a stage over a pending 1, built under the default rules and run; the
\* default has become [1] since; the stage has been handed 1 all the same
C27_Witness ==
    \E i \in DOMAIN results :
        LET th == boxes[results[i].box].thunk IN
        /\ th.op = "map"
        /\ boxes[results[i].box].config = defaultConfig
        /\ staticDefaultConfig = [badValues |-> <<Num(1)>>]
        /\ Upstream(th) = Ret(Promise("ful", Num(1)))
        /\ Settled(i)
        /\ CallsOf(i, th.id) = <<Ev(th.id, "map", Num(1))>>

---------------------------------------------------------------------------
(* The process-wide default under every operation *)

\* Every operation of the class: defineConfig with and without a badValues
\* list and the static restoreDefaults at any moment, boxes built by of and
\* thunk, one stage of each combinator, withConfig and restoreDefaults on a
\* box, one call of a runner, and its reactions.
NextDefaults ==
    \/ \E c \in PartialConfigs : defineConfig(c)
    \/ restoreDefaultsStatic
    \/ Len(boxes) < MaxChain /\ of(Null)
    \/ Len(boxes) < MaxChain /\ thunk(Ret(Promise("ful", Num(1))))
    \/ \E b \in DOMAIN boxes : Len(boxes) < MaxChain /\ map(b, "inc")
    \/ \E b \in DOMAIN boxes : Len(boxes) < MaxChain /\ filter(b, "isOne")
    \/ \E b \in DOMAIN boxes : Len(boxes) < MaxChain /\ flatMap(b, "boxInc")
    \/ \E b \in DOMAIN boxes : Len(boxes) < MaxChain /\ flat(b)
    \/ \E b \in DOMAIN boxes : Len(boxes) < MaxChain /\ flattenDeep(b)
    \/ \E b \in DOMAIN boxes : Len(boxes) < MaxChain /\ ap(b, Num(1))
    \/ \E b \in DOMAIN boxes : Len(boxes) < MaxChain /\ traverse(b, "inc")
    \/ \E b \in DOMAIN boxes : Len(boxes) < MaxChain /\ sequence(b)
    \/ \E b \in DOMAIN boxes : Len(boxes) < MaxChain /\ distribute(b)
    \/ \E b \in DOMAIN boxes : Len(boxes) < MaxChain /\ mutate(b, "inc")
    \/ \E b \in DOMAIN boxes : Len(boxes) < MaxChain /\ catch(b, "ten")
    \/ \E b \in DOMAIN boxes : Len(boxes) < MaxChain /\ recover(b, "ten")
    \/ \E b \in DOMAIN boxes : Len(boxes) < MaxChain /\ withConfig(b, [badValues |-> <<Num(1)>>])
    \/ \E b \in DOMAIN boxes : Len(boxes) < MaxChain /\ restoreDefaults(b)
    \/ \E b \in DOMAIN boxes : results = <<>> /\ run(b)
    \/ \E b \in DOMAIN boxes : results = <<>> /\ unwrap(b)
    \/ \E b \in DOMAIN boxes : results = <<>> /\ fold(b, LazyFoldArgs)
    \/ \E b \in DOMAIN boxes : Len(boxes) < MaxChain /\ results = <<>> /\ collect(b)
    \/ \E i \in DOMAIN tasks : Settle(i)

SpecDefaults == Init /\ [][NextDefaults]_vars

\* the static restoreDefaults leaves the original rules as the default
RestoreGivesOriginal ==
    restoreDefaultsStatic =>
        staticDefaultConfig'.badValues = <<Null, Undefined, isErrorFn, isNaNFn>>

\* defineConfig with a badValues list leaves that list as the default, and
\* without one the list there was
DefineReplaces ==
    \A c \in PartialConfigs :
        defineConfig(c) =>
            staticDefaultConfig'.badValues
                = (IF "badValues" \in DOMAIN c THEN c.badValues ELSE staticDefaultConfig.badValues)

\* a step that changes the default is one of the two
OnlyTheTwoChange ==
    staticDefaultConfig' # staticDefaultConfig =>
        \/ restoreDefaultsStatic
        \/ \E c \in PartialConfigs : defineConfig(c)

\* C28: after any sequence of defineConfig calls the static restoreDefaults
\* makes the process-wide default the original rule list [null, undefined,
\* isError, isNaN], so boxes constructed afterwards use the original rules;
\* defineConfig with a badValues list replaces the default list; no other
\* operation changes the process-wide default.
C28_DefaultChangedOnlyByTheTwo ==
    [][/\ RestoreGivesOriginal
       /\ DefineReplaces
       /\ OnlyTheTwoChange
       /\ ConstructedWithCurrentDefault]_vars

\* a box constructed under a redefined default, the default restored, a box
\* of null constructed afterwards: its map stage, run, has not called back
C28_Witness ==
    /\ Len(boxes) = 3
    /\ boxes[1].config # defaultConfig
    /\ staticDefaultConfig = defaultConfig
    /\ boxes[2].thunk.op = "of" /\ boxes[2].config = defaultConfig
    /\ boxes[3].thunk.op = "map" /\ boxes[3].thunk.src = 2
    /\ \E i \in DOMAIN results :
           results[i].box = 3 /\ results[i].out = Ret(Null) /\ CallsOf(i, 3) = <<>>

---------------------------------------------------------------------------
(* Several runner calls on one box *)

RunsProducers == {Ret(Num(1)), Throw(Err(1)), Ret(Promise("ful", Num(1)))}
RunsFns == {"inc", "throwError", "asyncInc"}

\* b is the box of the runner calls there have been
SameBox(b) == IF results = <<>> THEN TRUE ELSE results[1].box = b

\* One chain: a box built by thunk, stages of map, filter and catch on it,
\* and calls of run, unwrap and fold, all on the same box of the chain, with
\* the reactions of the promises they started in any order.
NextRuns ==
    \/ \E t \in RunsProducers : boxes = <<>> /\ thunk(t)
    \/ \E fn \in RunsFns : boxes # <<>> /\ Len(boxes) < MaxChain /\ map(Len(boxes), fn)
    \/ boxes # <<>> /\ Len(boxes) < MaxChain /\ filter(Len(boxes), "isOne")
    \/ boxes # <<>> /\ Len(boxes) < MaxChain /\ catch(Len(boxes), "ten")
    \/ \E b \in DOMAIN boxes : SameBox(b) /\ run(b)
    \/ \E b \in DOMAIN boxes : SameBox(b) /\ unwrap(b)
    \/ \E b \in DOMAIN boxes : SameBox(b) /\ fold(b, LazyFoldArgs)
    \/ \E i \in DOMAIN tasks : Settle(i)

SpecRuns == Init /\ [][NextRuns]_vars

\* the stage is on the executed path: its callback is owed an invocation by
\* what the box under it evaluates to (a value that is not bad for map and
\* filter; an Error, a throw or a rejection for catch)
Executed(th) ==
    IF th.op = "catch"
    THEN \/ Upstream(th).k = "throw"
         \/ /\ Upstream(th).k = "ret"
            /\ IF isPromise(Upstream(th).v)
               THEN FinalOf(Upstream(th).v).st = "rej" \/ isError(FinalOf(Upstream(th).v).pv)
               ELSE isError(Upstream(th).v)
    ELSE /\ Classified(th).known
         /\ ~isBadValue(Classified(th).v, boxes[th.id].config.badValues)

\* runner call i has invoked the producer at the origin of its box once, the
\* callback of no stage more than once, and, when it is over, the callback
\* of every stage of its chain on the executed path once, and no other
EvaluatesChainOnce(i) ==
    LET th == boxes[results[i].box].thunk IN
    /\ ProducerCalls(i) = <<Ev(OriginOf(th).id, OriginOf(th).op, Undefined)>>
    /\ \A c \in DOMAIN boxes :
           Derived(c) =>
               /\ Len(CallsOf(i, c)) <= 1
               /\ ~Through(th, c) => CallsOf(i, c) = <<>>
               /\ (Through(th, c) /\ OutputReady(i)) =>
                      (Len(CallsOf(i, c)) = 1) = Executed(boxes[c].thunk)

\* C29: a box does not memoize: each call of run, unwrap or fold on the same
\* box invokes the origin producer and every upstream callback on the
\* executed path exactly once, so n runner calls invoke the origin producer
\* exactly n times (no collect in the chain).
C29_EveryRunnerCallReEvaluates ==
    \A i \in DOMAIN results :
        results[i].runner \in {"run", "unwrap", "fold"} => EvaluatesChainOnce(i)

\* three runner calls on the same two-stage chain over a pending 1, run,
\* unwrap and fold among them, all over: each has called the producer and
\* both callbacks
C29_Witness ==
    /\ Len(results) = 3
    /\ Len(boxes) = 3
    /\ boxes[1].thunk.out = Ret(Promise("ful", Num(1)))
    /\ {results[i].runner : i \in DOMAIN results} = {"run", "unwrap", "fold"}
    /\ \A i \in DOMAIN results :
           /\ results[i].box = 3
           /\ OutputReady(i)
           /\ Len(ProducerCalls(i)) = 1
           /\ Len(CallsOf(i, 2)) = 1 /\ Len(CallsOf(i, 3)) = 1

---------------------------------------------------------------------------
(* FlowBox.isBadValue on its own *)

\* the values classified: plain ones and functions
ClassifiedValues == {Num(1), Num(2), Null, NaN, Err(1), isErrorFn, FnValue("inc")}

\* the entries of a rule list: literals and predicates
Rules == {Null, Num(1), NaN, isErrorFn, isNaNFn, FnValue("isOne"), FnValue("inc")}

\* the badValues argument: a list of up to MaxLen rules, or none
RuleLists ==
    {[given |-> TRUE, list |-> l] : l \in SeqsUpTo(Rules, MaxLen)}
    \cup {[given |-> FALSE, list |-> <<>>]}

\* FlowBox.isBadValue(v, badValues)
isBadValueCall(v, badValues) ==
    /\ Returns("isBadValue", 0, [v |-> v, badValues |-> badValues],
               Ret(IF isBadValue(v, badVals(badValues)) THEN True ELSE False),
               some(v, badVals(badValues), 1))
    /\ UNCHANGED boxes

\* One call of isBadValue with a value and a rule list.
NextClassifier ==
    \E v \in ClassifiedValues, badValues \in RuleLists :
        results = <<>> /\ isBadValueCall(v, badValues)

SpecClassifier == Init /\ [][NextClassifier]_vars

\* the rule matches v as the claim has it: a function by the truth of its
\* answer for v, any other rule by strict equality with v
RuleMatches(bv, v) == IF isFunction(bv) THEN CallRule(bv, v) ELSE StrictEq(v, bv)

\* the place of the first rule that matches v, or one past the end
FirstMatch(v, rules) ==
    IF \E j \in DOMAIN rules : RuleMatches(rules[j], v)
    THEN CHOOSE j \in DOMAIN rules :
             RuleMatches(rules[j], v) /\ \A k \in 1..(j - 1) : ~RuleMatches(rules[k], v)
    ELSE Len(rules) + 1

\* the invocations owed: the predicates up to the first match, in order
RulesOwed(v, rules) ==
    LET upto == SelectSeq([j \in DOMAIN rules |-> j],
                          LAMBDA j : j <= FirstMatch(v, rules) /\ isFunction(rules[j]))
    IN  [k \in DOMAIN upto |-> RuleCall(upto[k], v)]

\* C30: isBadValue(value, rules) is true iff some rule matches, a rule that
\* is no function matching only by strict equality with value and a function
\* only when its answer for value is truthy; the rules are tried in order
\* and none after the first match is invoked; with an empty or missing list
\* the result is false.
C30_IsBadValueFirstMatch ==
    \A i \in DOMAIN results :
        results[i].runner = "isBadValue" =>
            LET v == results[i].args.v
                rules == badVals(results[i].args.badValues)
            IN  /\ results[i].out
                     = Ret(IF \E j \in DOMAIN rules : RuleMatches(rules[j], v)
                           THEN True ELSE False)
                /\ calls[i] = RulesOwed(v, rules)
                /\ rules = <<>> => results[i].out = Ret(False)

====
